---- MODULE Spec2Model ----
(***************************************************************************)
(* Verification model of the Lossless-Lab audio core                       *)
(* (src-tauri/src/audio): the SPSC ring buffer, the decoder worker, the    *)
(* output callback with its fade state machine, and the engine's command   *)
(* loop.                                                                   *)
(*                                                                         *)
(* Samples are f32 in the source.  Here a sample is an integer: in the     *)
(* ring and pipeline specifications it is the sample's sequence number in  *)
(* offer / decode order (so loss, duplication and reordering are visible), *)
(* in the callback specification it is an amplitude in units of 1/Scale.   *)
(***************************************************************************)
EXTENDS Integers, Sequences, FiniteSets, TLC

\* ------------------------------------------------------------------ bounds

\* log2 of the ring capacity (RING_BUFFER_SIZE is 2^17 in the source).
CapacityBits == 2
\* Width in bits of the position counters (usize in the source).
WordBits == 3
\* Longest slice one write call is given.
MaxChunk == 3
\* Longest output slice one read call is given.
MaxOut == 3
\* Samples the producer offers in one run of the ring specification.
MaxSamples == 9
\* Samples the worker feeds the callback in one run of the callback specification.
MaxFeed == 4
\* Decoder worker threads that can be spawned in one run.
MaxWorkers == 2
\* Fade ramp length in frames (FADE_RAMP_SAMPLES is 256 in the source; the
\* model runs the same fade arithmetic over a shorter ramp).
FADE_RAMP_SAMPLES == 2
\* Largest channel count of a stream.
MaxChannels == 2
\* Commands the host sends in one run of the engine specification.
MaxCmds == 2
\* Length of a track in samples.
TrackLen == 4
\* Samples in one decoded packet.
MaxPacket == 2
\* Capacity of the command channel (64 in the source).
ChannelCapacity == 2
\* Host threads calling send_command.
MaxHosts == 2
\* Commands the hosts send in one run of the channel specification.
MaxSends == 4

\* Fixed-point unit of an amplitude, a volume and a gain: 1.0 = Scale.
Scale == 100
\* HARD_LIMIT_CEILING = 0.99
HARD_LIMIT_CEILING == 99

RECURSIVE Pow2(_)
Pow2(n) == IF n = 0 THEN 1 ELSE 2 * Pow2(n - 1)

capacity == Pow2(CapacityBits)
WordMod == Pow2(WordBits)
Workers == 1..MaxWorkers

Min(a, b) == IF a < b THEN a ELSE b

VARIABLES
    buffer,      \* RingBuffer.buffer: slot index -> sample
    write_pos,   \* RingBuffer.write_pos
    read_pos,    \* RingBuffer.read_pos
    wk,          \* per producer thread: its position inside RingBuffer::write
    rd,          \* the consumer's position inside RingBuffer::read
    data,        \* the consumer's output slice
    offered,     \* number of samples offered to write so far
    accepted,    \* history: samples the writes accepted, in order
    delivered,   \* history: samples the reads returned, in order
    decoded,     \* history: samples the decoder returned to the worker, in order
    emitted,     \* history: samples the callback left in the output slice, in order
    cb,          \* the output callback: closure state (fade, fade_ctr, ch_count),
                 \* locals (vol, bit_perfect) and its position in the closure
    fade_req_stop,    \* AtomicBool, engine thread -> callback
    fade_req_pause,   \* AtomicBool, engine thread -> callback
    fade_req_resume,  \* AtomicBool, engine thread -> callback
    volume,           \* AtomicU32 holding an f32, in units of 1/Scale
    bit_perfect_cb,   \* AtomicBool, the callback's copy of is_bit_perfect
    dropout_count,    \* AtomicU64
    cmd_chan,    \* the bounded command channel (cmd_tx / cmd_rx)
    hpc,         \* per host thread: where it is inside send_command
    eng,         \* the engine thread: its position in audio_thread and the command
                 \* it is handling
    ctl,         \* decoder thread control: decoder_running, decoder_paused,
                 \* seek_request_ms
    mir,         \* the atomic mirrors: is_playing, is_paused, position_ms,
                 \* duration_ms, current_sample_rate, current_channels, is_bit_perfect
    state,       \* Mutex<PlaybackState>
    rg_state,    \* Mutex<ReplayGainState>
    trace,       \* history: commands sent, Plays among them, workers spawned
    device,      \* the default output device, as cpal reports it
    nt,          \* run_null_test: the two decoded sequences, the locals of the
                 \* comparison and its position in the function
    snap         \* history: the command the engine received last and the engine
                 \* state at that moment

ringVars == <<buffer, write_pos, read_pos>>
histVars == <<offered, accepted, delivered, decoded, emitted>>
engVars == <<cmd_chan, hpc, eng, ctl, mir, state, rg_state, trace, device, nt, snap>>
nonRingVars == <<cb, fade_req_stop, fade_req_pause, fade_req_resume, volume,
                 bit_perfect_cb, dropout_count, engVars>>
cbVars == <<cb, fade_req_stop, fade_req_pause, fade_req_resume, volume,
            bit_perfect_cb, dropout_count>>
cbAtomics == <<fade_req_stop, fade_req_pause, fade_req_resume, volume,
               bit_perfect_cb, dropout_count>>
vars == <<buffer, write_pos, read_pos, wk, rd, data, offered, accepted, delivered,
          decoded, emitted, cb, fade_req_stop, fade_req_pause, fade_req_resume,
          volume, bit_perfect_cb, dropout_count, cmd_chan, hpc, eng, ctl, mir,
          state, rg_state, trace, device, nt, snap>>

\* ------------------------------------------------------------ ring buffer

\* usize wrapping_sub / wrapping_add
wrapping_sub(a, b) == (a - b + WordMod) % WordMod
wrapping_add(a, b) == (a + b) % WordMod

\* (pos + i) & self.mask, mask = capacity - 1, capacity a power of two
SlotIndex(pos, i) == (pos + i) % capacity

\* write: capacity - 1 - used, one slot kept empty (usize arithmetic)
WriteAvailable_NoGap(write, read) ==
    (capacity - wrapping_sub(write, read) + WordMod) % WordMod
WriteAvailable(write, read) ==
    (capacity - 1 - wrapping_sub(write, read) + WordMod) % WordMod

\* read: write.wrapping_sub(read)
ReadAvailable_OneMore(write, read) == wrapping_add(wrapping_sub(write, read), 1)
ReadAvailable(write, read) == wrapping_sub(write, read)

\* no stream built: there is no callback closure.  fade_at, raw, drop_at,
\* quiet and faded are history: the fade state an invocation dispatched on,
\* the samples it read, dropout_count when it dispatched, whether it began
\* in Silent with a Pause as the last command handled, and the number of
\* frames given a fade-out gain since the closure last entered FadingOut
CbNone == [pc |-> "none", fade |-> "Playing", fade_ctr |-> FADE_RAMP_SAMPLES, ch_count |-> 1,
           vol |-> Scale, bit_perfect |-> TRUE, fade_at |-> "Playing", raw |-> << >>,
           drop_at |-> 0, quiet |-> FALSE, faded |-> 0]

\* a thread that is not inside write: the write call's locals, and the
\* decoder thread's own (path, decoder position, samples_decoded, seek_val)
WkIdle == [pc |-> "idle", write |-> 0, to_write |-> 0, i |-> 0, chunk |-> << >>,
           path |-> 0, dec_pos |-> 0, samples_decoded |-> 0, seek_val |-> 0]
RdIdle == [pc |-> "idle", read |-> 0, to_read |-> 0, i |-> 0]

\* u64::MAX, the "no seek pending" value of seek_request_ms
U64_MAX == WordMod - 1

\* the files a Play can name.  Path 1 is a low-rate track (one second of it
\* is one sample), path 2 a high-rate track (one second of it is as long as
\* the ring), path 3 a file that AudioDecoder::open rejects.  Time is
\* counted in seconds.
Paths == 1..2
FileAt(path) ==
    CASE path = 1 -> [ok |-> TRUE, sample_rate |-> 1, channels |-> 1, len |-> TrackLen]
      [] path = 2 -> [ok |-> TRUE, sample_rate |-> capacity, channels |-> 1,
                      len |-> TrackLen]
      [] OTHER -> [ok |-> FALSE, sample_rate |-> 0, channels |-> 0, len |-> 0]

\* Option<f32>: None, or Some(x) with x in units of 1/Scale (a peak) or in
\* dB (a gain)
None == [some |-> FALSE, v |-> 0]
Some(x) == [some |-> TRUE, v |-> x]

\* ReplayGainInfo::default, replaygain.rs lines 25-34
ReplayGainInfoDefault ==
    [track_gain_db |-> None, track_peak |-> None,
     album_gain_db |-> None, album_peak |-> None]

\* ReplayGainState::new
RgNew == [mode |-> "Off", clipping_prevention |-> TRUE, info |-> ReplayGainInfoDefault,
          gain_linear |-> Scale]

\* PlaybackState::default
PlaybackStateDefault ==
    [is_playing |-> FALSE, is_paused |-> FALSE, duration_secs |-> 0, position_secs |-> 0,
     sample_rate |-> 0, channels |-> 0, current_file |-> 0, resampled |-> FALSE]

\* the engine thread between commands
EngRecv == [pc |-> "recv", cmd |-> [kind |-> "None", arg |-> 0], sr |-> 0, ch |-> 0,
            dur |-> 0, resampled |-> FALSE]

\* the engine thread after a panic: the thread has unwound and dropped its
\* locals, the receiving end of the command channel among them
EngPanicked == [EngRecv EXCEPT !.pc = "panicked"]

\* the default output device: whether the host has one, whether one of its
\* supported configurations covers the file's rate and channels, whether
\* build_output_stream and stream.play() succeed
DefaultDevice == [present |-> TRUE, native |-> TRUE, build_ok |-> TRUE, play_ok |-> TRUE]

\* an f32 or f64 value: a finite number in units of 1/Scale, an infinity
\* with its sign, or a NaN
Finite(v) == [cls |-> "finite", v |-> v]
Infinite(sign) == [cls |-> "inf", v |-> sign]
NaN == [cls |-> "nan", v |-> 0]

\* run_null_test has not been called
NtNone == [pc |-> "none", samples_a |-> << >>, samples_b |-> << >>, i |-> 0,
           diff_count |-> 0, max_diff |-> Finite(0), sum_sq |-> Finite(0),
           total_samples |-> 0, passed |-> FALSE]

\* no command received yet
SnapNone == [kind |-> "None", arg |-> 0, decoder_running |-> FALSE, stream |-> FALSE,
             is_playing |-> FALSE, is_paused |-> FALSE, state |-> PlaybackStateDefault]

\* AudioEngine::new and the head of audio_thread: empty channel, atomics at
\* their initial values, no stream, no decoder thread
EngineNew ==
    /\ cmd_chan = << >>
    /\ hpc = [h \in 1..MaxHosts |-> [pc |-> "idle", cmd |-> [kind |-> "None", arg |-> 0]]]
    /\ eng = EngRecv
    /\ ctl = [decoder_running |-> FALSE, decoder_paused |-> FALSE,
              seek_request_ms |-> U64_MAX]
    /\ mir = [is_playing |-> FALSE, is_paused |-> FALSE, position_ms |-> 0,
              duration_ms |-> 0, current_sample_rate |-> 0, current_channels |-> 0,
              is_bit_perfect |-> TRUE]
    /\ state = PlaybackStateDefault
    /\ rg_state = RgNew
    /\ trace = [sent |-> 0, plays |-> 0, spawned |-> 0]

\* RingBuffer::new
RingNew ==
    /\ buffer = [s \in 0..(capacity - 1) |-> 0]
    /\ write_pos = 0
    /\ read_pos = 0

\* write, line 44: let write = self.write_pos.load(Relaxed)
WriteLoadWrite(w) ==
    /\ wk[w].pc = "w_load_write"
    /\ wk' = [wk EXCEPT ![w].write = write_pos, ![w].pc = "w_load_read"]
    /\ UNCHANGED <<ringVars, rd, data, histVars, nonRingVars>>

\* write, lines 45-54: load read_pos (Acquire), compute to_write, early return 0
WriteLoadRead(w) ==
    /\ wk[w].pc = "w_load_read"
    /\ LET available == WriteAvailable(wk[w].write, read_pos)
           n == Min(Len(wk[w].chunk), available)
       IN wk' = [wk EXCEPT ![w].to_write = n, ![w].i = 0,
                           ![w].pc = IF n = 0 THEN "w_ret" ELSE "w_copy"]
    /\ UNCHANGED <<ringVars, rd, data, histVars, nonRingVars>>

\* write, lines 64-69: one iteration of the copy loop
WriteCopy(w) ==
    /\ wk[w].pc = "w_copy"
    /\ buffer' = [buffer EXCEPT ![SlotIndex(wk[w].write, wk[w].i)] = wk[w].chunk[wk[w].i + 1]]
    /\ wk' = [wk EXCEPT ![w].i = @ + 1,
                        ![w].pc = IF wk[w].i + 1 = wk[w].to_write THEN "w_publish" ELSE "w_copy"]
    /\ UNCHANGED <<write_pos, read_pos, rd, data, histVars, nonRingVars>>

\* a write that publishes the length of the whole slice
WritePublish_WholeSlice(w) ==
    /\ wk[w].pc = "w_publish"
    /\ write_pos' = wrapping_add(wk[w].write, Len(wk[w].chunk))
    /\ wk' = [wk EXCEPT ![w].pc = "w_ret"]
    /\ UNCHANGED <<buffer, read_pos, rd, data, offered, delivered, decoded, emitted,
                   nonRingVars>>

\* write, line 72: self.write_pos.store(write.wrapping_add(to_write), Release)
WritePublish(w) ==
    /\ wk[w].pc = "w_publish"
    /\ write_pos' = wrapping_add(wk[w].write, wk[w].to_write)
    /\ wk' = [wk EXCEPT ![w].pc = "w_ret"]
    /\ UNCHANGED <<buffer, read_pos, rd, data, offered, delivered, decoded, emitted,
                   nonRingVars>>

\* history: the samples write(w) accepted, recorded as they are published
RecordAccepted(w) == accepted' = accepted \o SubSeq(wk[w].chunk, 1, wk[w].to_write)

\* read, line 81: let read = self.read_pos.load(Relaxed)
ReadLoadRead ==
    /\ rd.pc = "r_load_read"
    /\ rd' = [rd EXCEPT !.read = read_pos, !.pc = "r_load_write"]
    /\ UNCHANGED <<ringVars, wk, data, histVars, nonRingVars>>

\* read, lines 82-89: load write_pos (Acquire), compute to_read, early return 0
ReadLoadWrite ==
    /\ rd.pc = "r_load_write"
    /\ LET available == ReadAvailable(write_pos, rd.read)
           n == Min(Len(data), available)
       IN rd' = [rd EXCEPT !.to_read = n, !.i = 0,
                           !.pc = IF n = 0 THEN "r_ret" ELSE "r_copy"]
    /\ UNCHANGED <<ringVars, wk, data, histVars, nonRingVars>>

\* read, lines 93-96: one iteration of the copy loop
ReadCopy ==
    /\ rd.pc = "r_copy"
    /\ data' = [data EXCEPT ![rd.i + 1] = buffer[SlotIndex(rd.read, rd.i)]]
    /\ rd' = [rd EXCEPT !.i = @ + 1,
                        !.pc = IF rd.i + 1 = rd.to_read THEN "r_publish" ELSE "r_copy"]
    /\ UNCHANGED <<ringVars, wk, histVars, nonRingVars>>

\* read, line 99: self.read_pos.store(read.wrapping_add(to_read), Release)
ReadPublish ==
    /\ rd.pc = "r_publish"
    /\ read_pos' = wrapping_add(rd.read, rd.to_read)
    /\ rd' = [rd EXCEPT !.pc = "r_ret"]
    /\ UNCHANGED <<buffer, write_pos, wk, data, offered, accepted, decoded, emitted,
                   nonRingVars>>

\* history: the samples read returned, recorded as read_pos is published
RecordDelivered == delivered' = delivered \o SubSeq(data, 1, rd.to_read)

\* available_read(), available_write(): snapshots of the two counters
available_read == wrapping_sub(write_pos, read_pos)
available_write == (capacity - 1 - wrapping_sub(write_pos, read_pos) + WordMod) % WordMod

\* ------------------------------------- ring specification: one producer,
\* one consumer, each calling write / read in a loop (no clear)

Producer == 1

\* samples offered+1 .. offered+n, in offer order
NextSamples(n) == [k \in 1..n |-> offered + k]

\* the producer thread calls write(samples) with a slice of its choice
ProducerCall ==
    /\ wk[Producer].pc = "idle"
    /\ \E n \in 1..MaxChunk :
        /\ offered + n <= MaxSamples
        /\ wk' = [wk EXCEPT ![Producer] =
                    [WkIdle EXCEPT !.pc = "w_load_write", !.chunk = NextSamples(n)]]
        /\ offered' = offered + n
    /\ UNCHANGED <<ringVars, rd, data, accepted, delivered, decoded, emitted,
                   nonRingVars>>

\* write returns to_write: the first to_write samples of the slice were accepted
ProducerReturn ==
    /\ wk[Producer].pc = "w_ret"
    /\ wk' = [wk EXCEPT ![Producer] = WkIdle]
    /\ UNCHANGED <<ringVars, rd, data, histVars, nonRingVars>>

\* the consumer thread calls read(out) with a slice of its choice
ConsumerCall ==
    /\ rd.pc = "idle"
    /\ \E n \in 1..MaxOut :
        data' = [k \in 1..n |-> 0]
    /\ rd' = [RdIdle EXCEPT !.pc = "r_load_read"]
    /\ UNCHANGED <<ringVars, wk, histVars, nonRingVars>>

\* read returns to_read: out[0..to_read) holds the samples read
ConsumerReturn ==
    /\ rd.pc = "r_ret"
    /\ rd' = RdIdle
    /\ UNCHANGED <<ringVars, wk, data, histVars, nonRingVars>>

InitRing ==
    /\ RingNew
    /\ EngineNew
    /\ device = DefaultDevice
    /\ nt = NtNone
    /\ snap = SnapNone
    /\ wk = [w \in Workers |-> WkIdle]
    /\ rd = RdIdle
    /\ data = << >>
    /\ offered = 0
    /\ accepted = << >>
    /\ delivered = << >>
    /\ decoded = << >>
    /\ emitted = << >>
    /\ cb = CbNone
    /\ fade_req_stop = FALSE
    /\ fade_req_pause = FALSE
    /\ fade_req_resume = FALSE
    /\ volume = Scale
    /\ bit_perfect_cb = TRUE
    /\ dropout_count = 0

NextRing ==
    \/ ProducerCall
    \/ WriteLoadWrite(Producer)
    \/ WriteLoadRead(Producer)
    \/ WriteCopy(Producer)
    \/ WritePublish(Producer) /\ RecordAccepted(Producer)
    \/ ProducerReturn
    \/ ConsumerCall
    \/ ReadLoadRead
    \/ ReadLoadWrite
    \/ ReadCopy
    \/ ReadPublish /\ RecordDelivered
    \/ ConsumerReturn

SpecRing == InitRing /\ [][NextRing]_vars

IsPrefix(s, t) == Len(s) <= Len(t) /\ SubSeq(t, 1, Len(s)) = s

\* C1: under one producer and one consumer, what the reads have returned is
\* a prefix of what the writes have accepted, in the same order: no sample
\* is lost, duplicated or reordered.
C1_RingFifo == IsPrefix(delivered, accepted)

\* C1 witness: the reads have returned samples across a wrap of the slot
\* index, after at least one short write and with more accepted than read.
C1_Witness ==
    /\ Len(delivered) > capacity
    /\ Len(accepted) > Len(delivered)
    /\ offered > Len(accepted)
    /\ wk[Producer].pc = "idle"

\* slots holding a sample that has been published and not yet read
UnreadSlots == {SlotIndex(read_pos, k) : k \in 0..(available_read - 1)}

\* C2: under one producer and one consumer, write_pos - read_pos (modulo the
\* word size) stays within 0..capacity-1, and the slot a write is about to
\* store into never holds a sample the consumer has not yet read.
C2_RingBounds ==
    /\ available_read \in 0..(capacity - 1)
    /\ wk[Producer].pc = "w_copy" =>
          SlotIndex(wk[Producer].write, wk[Producer].i) \notin UnreadSlots

\* C2 witness: the counters have wrapped around the word (write_pos is
\* numerically below read_pos), unread samples are in the ring and the
\* producer is about to store into a free slot.
C2_Witness ==
    /\ write_pos < read_pos
    /\ available_read > 0
    /\ wk[Producer].pc = "w_copy"

\* ------------------------------------------------------- output callback

\* f32 arithmetic on fixed-point amplitudes: products round toward zero
TruncDiv(a, b) == IF a >= 0 THEN a \div b ELSE -((-a) \div b)

\* the f32 values that are not finite, as amplitudes beyond every finite one
\* of the model: f32::INFINITY (its negation is -F32_INFINITY) and a NaN
F32_INFINITY == 10000
F32_NAN == 20000

\* f32::is_finite
is_finite(s) == s # F32_NAN /\ s # F32_INFINITY /\ s # -F32_INFINITY

\* s * vol, vol >= 0 in units of 1/Scale; a NaN stays a NaN, an infinity
\* keeps its sign, and infinity * 0 is a NaN
MulVol(s, vol) ==
    IF is_finite(s) THEN TruncDiv(s * vol, Scale)
    ELSE IF s = F32_NAN \/ vol = 0 THEN F32_NAN
    ELSE s

\* equal_power_gain(progress) = sin(progress * pi/2) for progress = k/r, as
\* the fraction <<numerator, denominator>> of Bhaskara's approximation
\* 4k(2r-k) / (5r^2 - k(2r-k)): 0 at k = 0, 1 at k = r, increasing in k.
equal_power_gain(k, r) == <<4 * k * (2 * r - k), 5 * r * r - k * (2 * r - k)>>

\* s * g for a gain g = <<numerator, denominator>> in [0, 1]
MulGain(s, g) ==
    IF is_finite(s) THEN TruncDiv(s * g[1], g[2])
    ELSE IF s = F32_NAN \/ g[1] = 0 THEN F32_NAN
    ELSE s

\* hard_limit without the is_finite test: clamp alone, which returns a NaN
\* for a NaN
hard_limit_ClampOnly(s) ==
    IF s = F32_NAN THEN s
    ELSE IF s > HARD_LIMIT_CEILING THEN HARD_LIMIT_CEILING
    ELSE IF s < -HARD_LIMIT_CEILING THEN -HARD_LIMIT_CEILING
    ELSE s

\* hard_limit, lines 744-750: clamp to +-HARD_LIMIT_CEILING, 0 for a value
\* that is not finite
hard_limit(s) ==
    IF is_finite(s)
    THEN (IF s > HARD_LIMIT_CEILING THEN HARD_LIMIT_CEILING
          ELSE IF s < -HARD_LIMIT_CEILING THEN -HARD_LIMIT_CEILING
          ELSE s)
    ELSE 0

\* lines 565-567, 602-604, 636-638: for s in data[read..].iter_mut() { *s = 0.0 }
ZeroFill_Skip(d, read) == d
ZeroFill(d, read) == [p \in 1..Len(d) |-> IF p > read THEN 0 ELSE d[p]]

\* lines 556-563: fade out the tail of a short read in the Playing branch
TailFade_None(d, read) == d
TailFade(d, read) ==
    LET ramp == Min(read, FADE_RAMP_SAMPLES)
    IN [p \in 1..Len(d) |->
          IF p > read - ramp /\ p <= read
          THEN MulGain(d[p], equal_power_gain(ramp - (p - 1 - (read - ramp)), ramp))
          ELSE d[p]]

\* lines 552-555: a short, non-empty read in the Playing branch is a dropout
PlayingDropout_Any(read, len) == IF read < len THEN 1 ELSE 0
PlayingDropout(read, len) == IF read < len /\ read > 0 THEN 1 ELSE 0

\* lines 535-569: FadeState::Playing, after ring_cb.read(data) returned read
PlayingBranch(d, read, vol, bit_perfect) ==
    LET d1 == [p \in 1..Len(d) |->
                 IF p <= read /\ ~bit_perfect THEN hard_limit(MulVol(d[p], vol)) ELSE d[p]]
    IN IF read < Len(d) THEN ZeroFill(TailFade(d1, read), read) ELSE d1

\* position p lies in the frame starting at frame_start fs, below read
\* (for c in 0..ch_count { if frame_start + c < read { ... } })
InFrame(p, fs, ch, read) == p > fs /\ p <= fs + ch /\ p <= read

\* lines 576-601: the frame loop of FadeState::FadingOut from frame_start fs
RECURSIVE FadeOutFrames(_, _, _, _, _, _, _)
FadeOutFrames(d, fs, read, ctr, vol, bit_perfect, ch) ==
    IF fs >= read THEN [data |-> d, fade_ctr |-> ctr, faded |-> 0]
    ELSE IF ctr = 0
    THEN FadeOutFrames([p \in 1..Len(d) |-> IF InFrame(p, fs, ch, read) THEN 0 ELSE d[p]],
                       fs + ch, read, 0, vol, bit_perfect, ch)
    ELSE LET g == equal_power_gain(ctr, FADE_RAMP_SAMPLES)
             Fade(x) == IF bit_perfect THEN MulGain(x, g)
                        ELSE hard_limit(MulGain(MulVol(x, vol), g))
             r == FadeOutFrames([p \in 1..Len(d) |->
                                    IF InFrame(p, fs, ch, read) THEN Fade(d[p]) ELSE d[p]],
                                fs + ch, read, ctr - 1, vol, bit_perfect, ch)
         IN [r EXCEPT !.faded = @ + 1]

\* a fade-out that goes Silent one frame before its counter reaches 0
FadingOutBranch_Early(d, read, ctr, vol, bit_perfect, ch) ==
    LET r == FadeOutFrames(d, 0, read, ctr, vol, bit_perfect, ch)
    IN [data |-> ZeroFill(r.data, read), fade_ctr |-> r.fade_ctr, faded |-> r.faded,
        fade |-> IF r.fade_ctr <= 1 THEN "Silent" ELSE "FadingOut"]

\* lines 571-608: FadeState::FadingOut, after ring_cb.read(data) returned read
FadingOutBranch(d, read, ctr, vol, bit_perfect, ch) ==
    LET r == FadeOutFrames(d, 0, read, ctr, vol, bit_perfect, ch)
    IN [data |-> ZeroFill(r.data, read), fade_ctr |-> r.fade_ctr, faded |-> r.faded,
        fade |-> IF r.fade_ctr = 0 THEN "Silent" ELSE "FadingOut"]

\* lines 613-635: the frame loop of FadeState::FadingIn from frame_start fs
RECURSIVE FadeInFrames(_, _, _, _, _, _, _)
FadeInFrames(d, fs, read, ctr, vol, bit_perfect, ch) ==
    IF fs >= read THEN [data |-> d, fade_ctr |-> ctr]
    ELSE LET full == ctr >= FADE_RAMP_SAMPLES
             g == IF full THEN equal_power_gain(1, 1)
                  ELSE equal_power_gain(ctr, FADE_RAMP_SAMPLES)
             Fade(x) == IF bit_perfect /\ full THEN x
                        ELSE IF bit_perfect THEN MulGain(x, g)
                        ELSE hard_limit(MulGain(MulVol(x, vol), g))
         IN FadeInFrames([p \in 1..Len(d) |->
                             IF InFrame(p, fs, ch, read) THEN Fade(d[p]) ELSE d[p]],
                         fs + ch, read, Min(ctr + 1, FADE_RAMP_SAMPLES), vol,
                         bit_perfect, ch)

\* a fade-in that goes Playing one frame before its counter reaches the ramp
FadingInBranch_Early(d, read, ctr, vol, bit_perfect, ch) ==
    LET r == FadeInFrames(d, 0, read, ctr, vol, bit_perfect, ch)
    IN [data |-> ZeroFill(r.data, read), fade_ctr |-> r.fade_ctr,
        fade |-> IF r.fade_ctr >= FADE_RAMP_SAMPLES - 1 THEN "Playing" ELSE "FadingIn"]

\* lines 610-642: FadeState::FadingIn, after ring_cb.read(data) returned read
FadingInBranch(d, read, ctr, vol, bit_perfect, ch) ==
    LET r == FadeInFrames(d, 0, read, ctr, vol, bit_perfect, ch)
    IN [data |-> ZeroFill(r.data, read), fade_ctr |-> r.fade_ctr,
        fade |-> IF r.fade_ctr >= FADE_RAMP_SAMPLES THEN "Playing" ELSE "FadingIn"]

\* build_output_stream, lines 502-504: the closure's initial private state
CbNew(ch) == [CbNone EXCEPT !.pc = "idle", !.ch_count = ch]

\* contents the OS may hand over in the output slice: anything, including
\* what an earlier invocation left there
StaleValues == {0, 77}

\* line 506: the OS invokes the callback with the output slice d
CallbackInvoke(d) ==
    /\ cb.pc = "idle"
    /\ rd.pc = "idle"
    /\ data' = d
    /\ cb' = [cb EXCEPT !.pc = "swap_stop", !.raw = << >>,
                        !.quiet = (cb.fade = "Silent" /\ snap.kind = "Pause"
                                     /\ eng.pc = "recv")]
    /\ UNCHANGED <<ringVars, wk, rd, histVars, engVars, fade_req_stop, fade_req_pause,
                   fade_req_resume, volume, bit_perfect_cb, dropout_count>>

\* lines 508-511: if stop_cb.swap(false) { FadingOut, ramp }
CallbackSwapStop ==
    /\ cb.pc = "swap_stop"
    /\ fade_req_stop' = FALSE
    /\ cb' = IF fade_req_stop
             THEN [cb EXCEPT !.pc = "swap_pause", !.fade = "FadingOut",
                             !.fade_ctr = FADE_RAMP_SAMPLES, !.faded = 0]
             ELSE [cb EXCEPT !.pc = "swap_pause"]
    /\ UNCHANGED <<ringVars, wk, rd, data, histVars, engVars, fade_req_pause,
                   fade_req_resume, volume, bit_perfect_cb, dropout_count>>

\* a pause swap that enters FadingOut from every state, as the stop swap does
CallbackSwapPause_Unguarded ==
    /\ cb.pc = "swap_pause"
    /\ fade_req_pause' = FALSE
    /\ cb' = IF fade_req_pause
             THEN [cb EXCEPT !.pc = "swap_resume", !.fade = "FadingOut",
                             !.fade_ctr = FADE_RAMP_SAMPLES, !.faded = 0]
             ELSE [cb EXCEPT !.pc = "swap_resume"]
    /\ UNCHANGED <<ringVars, wk, rd, data, histVars, engVars, fade_req_stop,
                   fade_req_resume, volume, bit_perfect_cb, dropout_count>>

\* lines 512-517: if pause_cb.swap(false) { from Playing / FadingIn: FadingOut, ramp }
CallbackSwapPause ==
    /\ cb.pc = "swap_pause"
    /\ fade_req_pause' = FALSE
    /\ cb' = IF fade_req_pause /\ cb.fade \in {"Playing", "FadingIn"}
             THEN [cb EXCEPT !.pc = "swap_resume", !.fade = "FadingOut",
                             !.fade_ctr = FADE_RAMP_SAMPLES, !.faded = 0]
             ELSE [cb EXCEPT !.pc = "swap_resume"]
    /\ UNCHANGED <<ringVars, wk, rd, data, histVars, engVars, fade_req_stop,
                   fade_req_resume, volume, bit_perfect_cb, dropout_count>>

\* lines 518-523: if resume_cb.swap(false) { from Silent / FadingOut: FadingIn, 0 }
CallbackSwapResume ==
    /\ cb.pc = "swap_resume"
    /\ fade_req_resume' = FALSE
    /\ cb' = IF fade_req_resume /\ cb.fade \in {"Silent", "FadingOut"}
             THEN [cb EXCEPT !.pc = "load_vol", !.fade = "FadingIn", !.fade_ctr = 0,
                             !.faded = 0]
             ELSE [cb EXCEPT !.pc = "load_vol"]
    /\ UNCHANGED <<ringVars, wk, rd, data, histVars, engVars, fade_req_stop,
                   fade_req_pause, volume, bit_perfect_cb, dropout_count>>

\* a callback that takes the replay-gain mutex before it loads the volume
CallbackLoadVol_UnderRgLock ==
    /\ cb.pc = "load_vol"
    /\ \A w \in Workers : wk[w].pc # "rg_locked"
    /\ cb' = [cb EXCEPT !.pc = "load_bp", !.vol = volume]
    /\ UNCHANGED <<ringVars, wk, rd, data, histVars, engVars, fade_req_stop, fade_req_pause,
                   fade_req_resume, volume, bit_perfect_cb, dropout_count>>

\* line 525: let vol = atomic_to_f32(vol_cb.load(Relaxed))
CallbackLoadVol ==
    /\ cb.pc = "load_vol"
    /\ cb' = [cb EXCEPT !.pc = "load_bp", !.vol = volume]
    /\ UNCHANGED <<ringVars, wk, rd, data, histVars, engVars, fade_req_stop, fade_req_pause,
                   fade_req_resume, volume, bit_perfect_cb, dropout_count>>

\* lines 526-536, 572, 611: load bit_perfect, then match fade: Silent zeroes
\* the slice, the other three states call ring_cb.read(data)
CallbackDispatch ==
    /\ cb.pc = "load_bp"
    /\ IF cb.fade = "Silent"
       THEN /\ data' = [p \in 1..Len(data) |-> 0]
            /\ cb' = [cb EXCEPT !.pc = "done", !.bit_perfect = bit_perfect_cb,
                                !.fade_at = cb.fade, !.drop_at = dropout_count]
            /\ rd' = rd
       ELSE /\ data' = data
            /\ cb' = [cb EXCEPT !.pc = "read", !.bit_perfect = bit_perfect_cb,
                                !.fade_at = cb.fade, !.drop_at = dropout_count]
            /\ rd' = [RdIdle EXCEPT !.pc = "r_load_read"]
    /\ UNCHANGED <<ringVars, wk, histVars, engVars, fade_req_stop, fade_req_pause,
                   fade_req_resume, volume, bit_perfect_cb, dropout_count>>

\* lines 536-642: the rest of the branch once ring_cb.read(data) has returned
CallbackProcess ==
    /\ cb.pc = "read"
    /\ rd.pc = "r_ret"
    /\ rd' = RdIdle
    /\ LET read == rd.to_read
           raw == SubSeq(data, 1, read)
       IN CASE cb.fade = "Playing" ->
                 /\ data' = PlayingBranch(data, read, cb.vol, cb.bit_perfect)
                 /\ dropout_count' = dropout_count + PlayingDropout(read, Len(data))
                 /\ cb' = [cb EXCEPT !.pc = "done", !.raw = raw]
            [] cb.fade = "FadingOut" ->
                 LET r == FadingOutBranch(data, read, cb.fade_ctr, cb.vol,
                                          cb.bit_perfect, cb.ch_count)
                 IN /\ data' = r.data
                    /\ dropout_count' = dropout_count
                    /\ cb' = [cb EXCEPT !.pc = "done", !.raw = raw, !.fade = r.fade,
                                        !.fade_ctr = r.fade_ctr,
                                        !.faded = @ + r.faded]
            [] cb.fade = "FadingIn" ->
                 LET r == FadingInBranch(data, read, cb.fade_ctr, cb.vol,
                                         cb.bit_perfect, cb.ch_count)
                 IN /\ data' = r.data
                    /\ dropout_count' = dropout_count
                    /\ cb' = [cb EXCEPT !.pc = "done", !.raw = raw, !.fade = r.fade,
                                        !.fade_ctr = r.fade_ctr]
    /\ UNCHANGED <<ringVars, wk, offered, accepted, delivered, decoded, engVars,
                   fade_req_stop, fade_req_pause, fade_req_resume, volume,
                   bit_perfect_cb>>

\* history: what the invocation left in data[0..read)
RecordEmitted == emitted' = emitted \o SubSeq(data', 1, rd.to_read)

\* line 644: the closure returns; its locals and the slice go out of scope
CallbackReturn ==
    /\ cb.pc = "done"
    /\ cb' = [CbNone EXCEPT !.pc = "idle", !.fade = cb.fade, !.fade_ctr = cb.fade_ctr,
                            !.ch_count = cb.ch_count, !.faded = cb.faded]
    /\ data' = << >>
    /\ UNCHANGED <<ringVars, wk, rd, histVars, engVars, fade_req_stop, fade_req_pause,
                   fade_req_resume, volume, bit_perfect_cb, dropout_count>>

\* the slice holds n samples of whatever the OS left there
CallbackEnter ==
    \E n \in 1..MaxOut : \E v \in StaleValues : CallbackInvoke([k \in 1..n |-> v])

\* ------------------- callback specification: one stream's callback, fed
\* and commanded between invocations by its environment (the worker's
\* writes, the engine's fade requests, volume and bit-perfect stores)

\* the decoded signal: the amplitude of the k-th sample, cycling through
\* values inside and beyond the limiter's ceiling, of both signs
TestSignal == <<150, -60, 99, -150, 60>>
AmplitudeOf(k) == TestSignal[((k - 1) % Len(TestSignal)) + 1]
Volumes == {50, Scale}

CallbackQuiet == cb.pc = "idle" /\ wk[Producer].pc = "idle"

\* the decoder worker writes a chunk of samples
EnvWrite ==
    /\ CallbackQuiet
    /\ \E n \in 1..MaxChunk :
        /\ offered + n <= MaxFeed
        /\ offered' = offered + n
        /\ wk' = [wk EXCEPT ![Producer] =
                    [WkIdle EXCEPT !.pc = "w_load_write",
                                   !.chunk = [k \in 1..n |-> AmplitudeOf(offered + k)]]]
    /\ UNCHANGED <<ringVars, rd, data, accepted, delivered, decoded, emitted,
                   nonRingVars>>

\* Stop / Pause / Resume handlers: fade_req_*.store(true)
EnvFadeRequest ==
    /\ CallbackQuiet
    /\ \/ fade_req_stop' = TRUE /\ UNCHANGED <<fade_req_pause, fade_req_resume>>
       \/ fade_req_pause' = TRUE /\ UNCHANGED <<fade_req_stop, fade_req_resume>>
       \/ fade_req_resume' = TRUE /\ UNCHANGED <<fade_req_stop, fade_req_pause>>
    /\ UNCHANGED <<ringVars, wk, rd, data, histVars, engVars, cb, volume, bit_perfect_cb,
                   dropout_count>>

\* SetVolume handler and update_bit_perfect: volume and bit_perfect_cb stores
EnvSetVolume ==
    /\ CallbackQuiet
    /\ \E v \in Volumes : volume' = v
    /\ UNCHANGED <<ringVars, wk, rd, data, histVars, engVars, cb, fade_req_stop,
                   fade_req_pause, fade_req_resume, bit_perfect_cb, dropout_count>>

EnvSetBitPerfect ==
    /\ CallbackQuiet
    /\ \E b \in BOOLEAN : bit_perfect_cb' = b
    /\ UNCHANGED <<ringVars, wk, rd, data, histVars, engVars, cb, fade_req_stop,
                   fade_req_pause, fade_req_resume, volume, dropout_count>>

InitCallback ==
    /\ RingNew
    /\ EngineNew
    /\ device = DefaultDevice
    /\ nt = NtNone
    /\ snap = SnapNone
    /\ wk = [w \in Workers |-> WkIdle]
    /\ rd = RdIdle
    /\ data = << >>
    /\ offered = 0
    /\ accepted = << >>
    /\ delivered = << >>
    /\ decoded = << >>
    /\ emitted = << >>
    /\ \E ch \in 1..MaxChannels : cb = CbNew(ch)
    /\ fade_req_stop = FALSE
    /\ fade_req_pause = FALSE
    /\ fade_req_resume = FALSE
    /\ volume = Scale
    /\ bit_perfect_cb = TRUE
    /\ dropout_count = 0

NextCallback ==
    \/ EnvWrite
    \/ WriteLoadWrite(Producer)
    \/ WriteLoadRead(Producer)
    \/ WriteCopy(Producer)
    \/ WritePublish(Producer) /\ UNCHANGED accepted
    \/ ProducerReturn
    \/ EnvFadeRequest
    \/ EnvSetVolume
    \/ EnvSetBitPerfect
    \/ CallbackEnter
    \/ CallbackSwapStop
    \/ CallbackSwapPause
    \/ CallbackSwapResume
    \/ CallbackLoadVol
    \/ CallbackDispatch
    \/ ReadLoadRead
    \/ ReadLoadWrite
    \/ ReadCopy
    \/ ReadPublish /\ UNCHANGED delivered
    \/ CallbackProcess /\ UNCHANGED emitted
    \/ CallbackReturn

SpecCallback == InitCallback /\ [][NextCallback]_vars

\* the callback has finished an invocation that dispatched in fade state f
CallbackDone(f) == cb.pc = "done" /\ cb.fade_at = f

\* C7: a callback that ran the Playing branch with bit_perfect set outputs
\* exactly the samples ring.read returned, unmodified, followed by zeros.
C7_BitPerfectPlaying ==
    (CallbackDone("Playing") /\ cb.bit_perfect) =>
        data = [p \in 1..Len(data) |-> IF p <= Len(cb.raw) THEN cb.raw[p] ELSE 0]

\* C8: a callback that obtained n samples for a slice of N increments
\* dropout_count by exactly 1 when 0 < n < N, in whatever fade state, and leaves
\* it unchanged when n = 0 or n = N.
C8_DropoutAccounting ==
    cb.pc = "done" =>
        dropout_count - cb.drop_at =
            (IF 0 < Len(cb.raw) /\ Len(cb.raw) < Len(data) THEN 1 ELSE 0)

\* C9: in each fade state a finished callback has set every position at or
\* beyond the number of samples read to 0 (all positions in Silent), so
\* nothing stale is left in the slice.
C9_OutputFullyWritten ==
    cb.pc = "done" =>
        \A p \in 1..Len(data) : p > Len(cb.raw) => data[p] = 0

\* C9 witness: a fade-in callback that got fewer samples than the slice
\* holds, and at least one, has returned.
C9_Witness ==
    /\ CallbackDone("FadingIn")
    /\ Len(cb.raw) > 0
    /\ Len(cb.raw) < Len(data)

\* ------------------------------------------------- engine: command channel

audioVars == <<ringVars, wk, rd, data, histVars>>
hostVars == <<cmd_chan, hpc, trace, device, nt, snap>>

Cmd(kind, arg) == [kind |-> kind, arg |-> arg]

\* send_command, lines 183-185: let _ = self.cmd_tx.send(cmd) on the
\* bounded(64) channel of line 135.  send enqueues when there is room and
\* otherwise parks the calling thread until there is; once the receiver is
\* gone it returns Err at once, which `let _ =` discards with the command.
SendCommand(h, c) ==
    /\ hpc[h].pc = "idle"
    /\ IF eng.pc = "panicked"
       THEN /\ cmd_chan' = cmd_chan
            /\ hpc' = hpc
       ELSE IF Len(cmd_chan) < ChannelCapacity
       THEN /\ cmd_chan' = Append(cmd_chan, c)
            /\ hpc' = hpc
       ELSE /\ cmd_chan' = cmd_chan
            /\ hpc' = [hpc EXCEPT ![h] = [pc |-> "blocked", cmd |-> c]]
    /\ trace' = [trace EXCEPT !.sent = @ + 1,
                              !.plays = @ + (IF c.kind = "Play" THEN 1 ELSE 0)]
    /\ UNCHANGED <<audioVars, cbVars, eng, ctl, mir, state, rg_state, device, nt, snap>>

\* a parked send completes once the receiver has made room
SendWake(h) ==
    /\ hpc[h].pc = "blocked"
    /\ Len(cmd_chan) < ChannelCapacity
    /\ cmd_chan' = Append(cmd_chan, hpc[h].cmd)
    /\ hpc' = [hpc EXCEPT ![h] = [pc |-> "idle", cmd |-> Cmd("None", 0)]]
    /\ UNCHANGED <<audioVars, cbVars, eng, ctl, mir, state, rg_state, trace, device, nt,
                   snap>>

\* first step of the match arm for a command
HandlerEntry(kind) ==
    CASE kind = "Play" -> "play_stop"
      [] kind = "Stop" -> "stop_fade"
      [] kind = "Seek" -> "seek_req"
      [] kind = "SetVolume" -> "vol_store"
      [] kind = "SetReplayGain" -> "rg_mode"
      [] kind = "SetClippingPrevention" -> "rg_clip"
      [] kind = "Pause" -> "pause_fade"
      [] kind = "Resume" -> "resume_dec"

\* line 306: cmd_rx.recv_timeout(16 ms) returns Ok(cmd)
EngineRecv ==
    /\ eng.pc = "recv"
    /\ cmd_chan # << >>
    /\ eng' = [EngRecv EXCEPT !.pc = HandlerEntry(Head(cmd_chan).kind),
                              !.cmd = Head(cmd_chan)]
    /\ cmd_chan' = Tail(cmd_chan)
    /\ UNCHANGED <<audioVars, cbVars, hpc, trace, device, nt, ctl, mir, state, rg_state>>

\* RingBuffer::clear, line 122: self.write_pos.store(0, SeqCst)
ClearStoreWrite ==
    /\ write_pos' = 0
    /\ UNCHANGED <<buffer, read_pos>>

\* RingBuffer::clear, line 123: self.read_pos.store(0, SeqCst)
ClearStoreRead ==
    /\ read_pos' = 0
    /\ UNCHANGED <<buffer, write_pos>>

\* current_stream = None: the Stream is dropped, which stops the device
\* thread; the drop returns once no callback invocation is running
DropStream ==
    /\ cb.pc \in {"none", "idle"}
    /\ cb' = CbNone

\* ------------------------------------------------- engine: Play handler

\* line 309: decoder_running.store(false)
EnginePlayStopDecoder ==
    /\ eng.pc = "play_stop"
    /\ ctl' = [ctl EXCEPT !.decoder_running = FALSE]
    /\ eng' = [eng EXCEPT !.pc = "play_drop"]
    /\ UNCHANGED <<audioVars, cbVars, hostVars, mir, state, rg_state>>

\* lines 310-311: current_stream = None; sleep 50 ms
EnginePlayDropStream ==
    /\ eng.pc = "play_drop"
    /\ DropStream
    /\ eng' = [eng EXCEPT !.pc = "play_open"]
    /\ UNCHANGED <<audioVars, cbAtomics, hostVars, ctl, mir, state, rg_state>>

\* lines 314-325: AudioDecoder::open; on Err log and continue
EnginePlayOpen ==
    /\ eng.pc = "play_open"
    /\ LET f == FileAt(eng.cmd.arg)
       IN eng' = IF f.ok
                 THEN [eng EXCEPT !.pc = "play_rg", !.sr = f.sample_rate,
                                  !.ch = f.channels,
                                  !.dur = f.len \div (f.sample_rate * f.channels)]
                 ELSE EngRecv
    /\ UNCHANGED <<audioVars, cbVars, hostVars, ctl, mir, state, rg_state>>

\* Option::or
OrElse(a, b) == IF a.some THEN a ELSE b

\* f32 division of positive values, rounded to the nearest grid value
RoundDiv(a, b) == (2 * a + b) \div (2 * b)

\* db_to_linear, engine.rs lines 752-755: 10^(db / 20) on the gains the
\* model's tags carry, rounded to the grid (0.501..., 1, 1.995...)
db_to_linear(db) ==
    CASE db = -6 -> Scale \div 2
      [] db = 0 -> Scale
      [] db = 6 -> 2 * Scale

\* recalculate_gain without the clamp of lines 100-115
recalculate_gain_NoClamp(rg) ==
    LET gain_db == CASE rg.mode = "Off" -> None
                     [] rg.mode = "Track" -> rg.info.track_gain_db
                     [] rg.mode = "Album" ->
                            OrElse(rg.info.album_gain_db, rg.info.track_gain_db)
    IN  IF rg.mode = "Off" \/ ~gain_db.some
        THEN [rg EXCEPT !.gain_linear = Scale]
        ELSE [rg EXCEPT !.gain_linear = db_to_linear(gain_db.v)]

\* recalculate_gain with an Album arm that does not fall back to the track
\* gain
recalculate_gain_NoFallback(rg) ==
    LET gain_db == CASE rg.mode = "Off" -> None
                     [] rg.mode = "Track" -> rg.info.track_gain_db
                     [] rg.mode = "Album" -> rg.info.album_gain_db
        peak == CASE rg.mode = "Off" -> None
                  [] rg.mode = "Track" -> rg.info.track_peak
                  [] rg.mode = "Album" ->
                         OrElse(rg.info.album_peak, rg.info.track_peak)
        gain == db_to_linear(gain_db.v)
        max_gain == RoundDiv(Scale * Scale, peak.v)
    IN  IF rg.mode = "Off" \/ ~gain_db.some
        THEN [rg EXCEPT !.gain_linear = Scale]
        ELSE IF rg.clipping_prevention /\ peak.some /\ peak.v > 0 /\ gain > max_gain
        THEN [rg EXCEPT !.gain_linear = max_gain]
        ELSE [rg EXCEPT !.gain_linear = gain]

\* recalculate_gain, replaygain.rs lines 78-118
recalculate_gain(rg) ==
    LET gain_db == CASE rg.mode = "Off" -> None
                     [] rg.mode = "Track" -> rg.info.track_gain_db
                     [] rg.mode = "Album" ->
                            OrElse(rg.info.album_gain_db, rg.info.track_gain_db)
        peak == CASE rg.mode = "Off" -> None
                  [] rg.mode = "Track" -> rg.info.track_peak
                  [] rg.mode = "Album" ->
                         OrElse(rg.info.album_peak, rg.info.track_peak)
        gain == db_to_linear(gain_db.v)
        max_gain == RoundDiv(Scale * Scale, peak.v)
    IN  IF rg.mode = "Off" \/ ~gain_db.some
        THEN [rg EXCEPT !.gain_linear = Scale]
        ELSE IF rg.clipping_prevention /\ peak.some /\ peak.v > 0 /\ gain > max_gain
        THEN [rg EXCEPT !.gain_linear = max_gain]
        ELSE [rg EXCEPT !.gain_linear = gain]

\* load_from_file, replaygain.rs lines 73-76, on the tags read from the file
load_from_file(rg, info) == recalculate_gain([rg EXCEPT !.info = info])

\* read_replaygain_tags, replaygain.rs lines 138-174: the files of FileAt
\* carry no ReplayGain tag
read_replaygain_tags(path) == ReplayGainInfoDefault

\* lines 328-355: rg.load_from_file(&path);
\* host.default_output_device().expect("No output device") panics the
\* thread when the host has none; resampled is true when no supported
\* configuration of the device covers the file's rate and channels
EnginePlayLoadRg ==
    /\ eng.pc = "play_rg"
    /\ rg_state' = load_from_file(rg_state, read_replaygain_tags(eng.cmd.arg))
    /\ eng' = IF device.present
              THEN [eng EXCEPT !.pc = "play_state", !.resampled = ~device.native]
              ELSE EngPanicked
    /\ UNCHANGED <<audioVars, cbVars, hostVars, ctl, mir, state>>

\* lines 358-369: the PlaybackState update under the lock
EnginePlayState ==
    /\ eng.pc = "play_state"
    /\ state' = [is_playing |-> TRUE, is_paused |-> FALSE, duration_secs |-> eng.dur,
                 position_secs |-> 0, sample_rate |-> eng.sr, channels |-> eng.ch,
                 current_file |-> eng.cmd.arg, resampled |-> eng.resampled]
    /\ eng' = [eng EXCEPT !.pc = "play_m_playing"]
    /\ UNCHANGED <<audioVars, cbVars, hostVars, ctl, mir, rg_state>>

\* line 370: is_playing.store(true)
EnginePlayStorePlaying ==
    /\ eng.pc = "play_m_playing"
    /\ mir' = [mir EXCEPT !.is_playing = TRUE]
    /\ eng' = [eng EXCEPT !.pc = "play_m_paused"]
    /\ UNCHANGED <<audioVars, cbVars, hostVars, ctl, state, rg_state>>

\* line 371: is_paused.store(false)
EnginePlayStorePaused ==
    /\ eng.pc = "play_m_paused"
    /\ mir' = [mir EXCEPT !.is_paused = FALSE]
    /\ eng' = [eng EXCEPT !.pc = "play_m_rest"]
    /\ UNCHANGED <<audioVars, cbVars, hostVars, ctl, state, rg_state>>

\* lines 372-376: duration_ms, position_ms, current_sample_rate,
\* current_channels, dropout_count stores
EnginePlayStoreRest ==
    /\ eng.pc = "play_m_rest"
    /\ mir' = [mir EXCEPT !.duration_ms = eng.dur, !.position_ms = 0,
                          !.current_sample_rate = eng.sr, !.current_channels = eng.ch]
    /\ dropout_count' = 0
    /\ eng' = [eng EXCEPT !.pc = "play_bp"]
    /\ UNCHANGED <<audioVars, cb, fade_req_stop, fade_req_pause, fade_req_resume, volume,
                   bit_perfect_cb, hostVars, ctl, state, rg_state>>

\* f32::EPSILON, the distance from 1.0 to the next f32 above it, which is
\* twice the distance from 1.0 to the f32 below it: one grid step stands for
\* the latter, so Scale - 1 is the largest volume below 1.0
F32_EPSILON == 2

Abs(x) == IF x < 0 THEN -x ELSE x

BitPerfect_AnyMode(vol, rg) == Abs(vol - Scale) < F32_EPSILON

\* update_bit_perfect, lines 298-300:
\* (vol - 1.0).abs() < f32::EPSILON && rg.get_mode() == ReplayGainMode::Off
BitPerfect(vol, rg) == Abs(vol - Scale) < F32_EPSILON /\ rg.mode = "Off"

\* line 379: update_bit_perfect
EnginePlayBitPerfect ==
    /\ eng.pc = "play_bp"
    /\ mir' = [mir EXCEPT !.is_bit_perfect = BitPerfect(volume, rg_state)]
    /\ bit_perfect_cb' = BitPerfect(volume, rg_state)
    /\ eng' = [eng EXCEPT !.pc = IF eng.resampled THEN "play_bp_over"
                                 ELSE "play_clear_w"]
    /\ UNCHANGED <<audioVars, cb, fade_req_stop, fade_req_pause, fade_req_resume, volume,
                   dropout_count, hostVars, ctl, state, rg_state>>

\* lines 381-384: if resampled, false is stored over both flags
EnginePlayResampledOverride ==
    /\ eng.pc = "play_bp_over"
    /\ mir' = [mir EXCEPT !.is_bit_perfect = FALSE]
    /\ bit_perfect_cb' = FALSE
    /\ eng' = [eng EXCEPT !.pc = "play_clear_w"]
    /\ UNCHANGED <<audioVars, cb, fade_req_stop, fade_req_pause, fade_req_resume, volume,
                   dropout_count, hostVars, ctl, state, rg_state>>

\* line 387: ring_buffer.clear(), its first store
EnginePlayClearWrite ==
    /\ eng.pc = "play_clear_w"
    /\ ClearStoreWrite
    /\ eng' = [eng EXCEPT !.pc = "play_clear_r"]
    /\ UNCHANGED <<wk, rd, data, histVars, cbVars, hostVars, ctl, mir, state, rg_state>>

\* line 387: ring_buffer.clear(), its second store
EnginePlayClearRead ==
    /\ eng.pc = "play_clear_r"
    /\ ClearStoreRead
    /\ eng' = [eng EXCEPT !.pc = "play_flags"]
    /\ UNCHANGED <<wk, rd, data, histVars, cbVars, hostVars, ctl, mir, state, rg_state>>

\* lines 388-392: fade requests, decoder_paused and seek_request_ms reset
EnginePlayResetFlags ==
    /\ eng.pc = "play_flags"
    /\ fade_req_pause' = FALSE
    /\ fade_req_resume' = FALSE
    /\ fade_req_stop' = FALSE
    /\ ctl' = [ctl EXCEPT !.decoder_paused = FALSE, !.seek_request_ms = U64_MAX]
    /\ eng' = [eng EXCEPT !.pc = "play_run"]
    /\ UNCHANGED <<audioVars, cb, volume, bit_perfect_cb, dropout_count, hostVars, mir,
                   state, rg_state>>

\* line 403: running.store(true)
EnginePlaySetRunning ==
    /\ eng.pc = "play_run"
    /\ ctl' = [ctl EXCEPT !.decoder_running = TRUE]
    /\ eng' = [eng EXCEPT !.pc = "play_spawn"]
    /\ UNCHANGED <<audioVars, cbVars, hostVars, mir, state, rg_state>>

\* lines 405-472: thread::Builder::new().spawn(...): a new decoder thread
\* starts at the head of its loop, owning the decoder of the opened file
EnginePlaySpawn ==
    /\ eng.pc = "play_spawn"
    /\ trace.spawned < MaxWorkers
    /\ wk' = [wk EXCEPT ![trace.spawned + 1] =
                [WkIdle EXCEPT !.pc = "top", !.path = eng.cmd.arg]]
    /\ trace' = [trace EXCEPT !.spawned = @ + 1]
    /\ eng' = [eng EXCEPT !.pc = "play_build"]
    /\ UNCHANGED <<ringVars, rd, data, histVars, cbVars, cmd_chan, hpc, device, nt, snap,
                   ctl, mir, state, rg_state>>

\* lines 475-654: build_output_stream(...).expect(...),
\* stream.play().expect(...), current_stream = Some(stream); either expect
\* panics the thread on Err, and the unwinding drops a stream already built
EnginePlayBuildStream ==
    /\ eng.pc = "play_build"
    /\ IF device.build_ok /\ device.play_ok
       THEN /\ cb' = CbNew(eng.ch)
            /\ eng' = EngRecv
       ELSE /\ cb' = CbNone
            /\ eng' = EngPanicked
    /\ UNCHANGED <<audioVars, cbAtomics, hostVars, ctl, mir, state, rg_state>>

\* ------------------------------------- engine: Stop, Seek, SetVolume, Timeout

\* lines 676-681: fade_req_stop.store(true); sleep for the length of the ramp
EngineStopFade ==
    /\ eng.pc = "stop_fade"
    /\ fade_req_stop' = TRUE
    /\ eng' = [eng EXCEPT !.pc = "stop_run"]
    /\ UNCHANGED <<audioVars, cb, fade_req_pause, fade_req_resume, volume, bit_perfect_cb,
                   dropout_count, hostVars, ctl, mir, state, rg_state>>

\* line 682: decoder_running.store(false)
EngineStopDecoder ==
    /\ eng.pc = "stop_run"
    /\ ctl' = [ctl EXCEPT !.decoder_running = FALSE]
    /\ eng' = [eng EXCEPT !.pc = "stop_drop"]
    /\ UNCHANGED <<audioVars, cbVars, hostVars, mir, state, rg_state>>

\* line 683: current_stream = None
EngineStopDropStream ==
    /\ eng.pc = "stop_drop"
    /\ DropStream
    /\ eng' = [eng EXCEPT !.pc = "stop_clear_w"]
    /\ UNCHANGED <<audioVars, cbAtomics, hostVars, ctl, mir, state, rg_state>>

\* line 684: ring_buffer.clear(), its first store
EngineStopClearWrite ==
    /\ eng.pc = "stop_clear_w"
    /\ ClearStoreWrite
    /\ eng' = [eng EXCEPT !.pc = "stop_clear_r"]
    /\ UNCHANGED <<wk, rd, data, histVars, cbVars, hostVars, ctl, mir, state, rg_state>>

\* line 684: ring_buffer.clear(), its second store
EngineStopClearRead ==
    /\ eng.pc = "stop_clear_r"
    /\ ClearStoreRead
    /\ eng' = [eng EXCEPT !.pc = "stop_m_playing"]
    /\ UNCHANGED <<wk, rd, data, histVars, cbVars, hostVars, ctl, mir, state, rg_state>>

\* line 685: is_playing.store(false)
EngineStopStorePlaying ==
    /\ eng.pc = "stop_m_playing"
    /\ mir' = [mir EXCEPT !.is_playing = FALSE]
    /\ eng' = [eng EXCEPT !.pc = "stop_m_paused"]
    /\ UNCHANGED <<audioVars, cbVars, hostVars, ctl, state, rg_state>>

\* lines 686-687: is_paused.store(false); position_ms.store(0)
EngineStopStorePaused ==
    /\ eng.pc = "stop_m_paused"
    /\ mir' = [mir EXCEPT !.is_paused = FALSE, !.position_ms = 0]
    /\ eng' = [eng EXCEPT !.pc = "stop_state"]
    /\ UNCHANGED <<audioVars, cbVars, hostVars, ctl, state, rg_state>>

\* line 688: *state.lock() = PlaybackState::default()
EngineStopState ==
    /\ eng.pc = "stop_state"
    /\ state' = PlaybackStateDefault
    /\ eng' = EngRecv
    /\ UNCHANGED <<audioVars, cbVars, hostVars, ctl, mir, rg_state>>

\* lines 692-693: seek_request_ms.store(ms)
EngineSeekRequest ==
    /\ eng.pc = "seek_req"
    /\ ctl' = [ctl EXCEPT !.seek_request_ms = eng.cmd.arg]
    /\ eng' = [eng EXCEPT !.pc = "seek_pos"]
    /\ UNCHANGED <<audioVars, cbVars, hostVars, mir, state, rg_state>>

\* a seek relative to the current position rather than to an absolute one
EngineSeekPosition_Relative ==
    /\ eng.pc = "seek_pos"
    /\ mir' = [mir EXCEPT !.position_ms = wrapping_add(mir.position_ms, eng.cmd.arg)]
    /\ eng' = EngRecv
    /\ UNCHANGED <<audioVars, cbVars, hostVars, ctl, state, rg_state>>

\* line 694: position_ms.store(ms)
EngineSeekPosition ==
    /\ eng.pc = "seek_pos"
    /\ mir' = [mir EXCEPT !.position_ms = eng.cmd.arg]
    /\ eng' = EngRecv
    /\ UNCHANGED <<audioVars, cbVars, hostVars, ctl, state, rg_state>>

\* line 698: volume.store(v.clamp(0.0, 1.0))
EngineSetVolume ==
    /\ eng.pc = "vol_store"
    /\ volume' = (IF eng.cmd.arg < 0 THEN 0
                  ELSE IF eng.cmd.arg > Scale THEN Scale ELSE eng.cmd.arg)
    /\ eng' = [eng EXCEPT !.pc = "vol_bp"]
    /\ UNCHANGED <<audioVars, cb, fade_req_stop, fade_req_pause, fade_req_resume,
                   bit_perfect_cb, dropout_count, hostVars, ctl, mir, state, rg_state>>

\* lines 699, 704, 709: update_bit_perfect, the last step of SetVolume,
\* SetReplayGain and SetClippingPrevention
EngineSetVolumeBitPerfect ==
    /\ eng.pc = "vol_bp"
    /\ mir' = [mir EXCEPT !.is_bit_perfect = BitPerfect(volume, rg_state)]
    /\ bit_perfect_cb' = BitPerfect(volume, rg_state)
    /\ eng' = EngRecv
    /\ UNCHANGED <<audioVars, cb, fade_req_stop, fade_req_pause, fade_req_resume, volume,
                   dropout_count, hostVars, ctl, state, rg_state>>

\* set_mode without the recalculation of line 56
set_mode_NoRecalc(rg, mode) == [rg EXCEPT !.mode = mode]

\* set_mode, replaygain.rs lines 54-57
set_mode(rg, mode) == recalculate_gain([rg EXCEPT !.mode = mode])

\* set_clipping_prevention, replaygain.rs lines 59-62
set_clipping_prevention(rg, on) == recalculate_gain([rg EXCEPT !.clipping_prevention = on])

\* line 703: rg_state.lock().set_mode(mode)
EngineSetReplayGain ==
    /\ eng.pc = "rg_mode"
    /\ rg_state' = set_mode(rg_state, eng.cmd.arg)
    /\ eng' = [eng EXCEPT !.pc = "vol_bp"]
    /\ UNCHANGED <<audioVars, cbVars, hostVars, ctl, mir, state>>

\* line 708: rg_state.lock().set_clipping_prevention(on)
EngineSetClippingPrevention ==
    /\ eng.pc = "rg_clip"
    /\ rg_state' = set_clipping_prevention(rg_state, eng.cmd.arg)
    /\ eng' = [eng EXCEPT !.pc = "vol_bp"]
    /\ UNCHANGED <<audioVars, cbVars, hostVars, ctl, mir, state>>

\* line 658: fade_req_pause.store(true)
EnginePauseFade ==
    /\ eng.pc = "pause_fade"
    /\ fade_req_pause' = TRUE
    /\ eng' = [eng EXCEPT !.pc = "pause_dec"]
    /\ UNCHANGED <<audioVars, cb, fade_req_stop, fade_req_resume, volume, bit_perfect_cb,
                   dropout_count, hostVars, ctl, mir, state, rg_state>>

\* line 659: decoder_paused.store(true)
EnginePauseDecoder ==
    /\ eng.pc = "pause_dec"
    /\ ctl' = [ctl EXCEPT !.decoder_paused = TRUE]
    /\ eng' = [eng EXCEPT !.pc = "pause_m_paused"]
    /\ UNCHANGED <<audioVars, cbVars, hostVars, mir, state, rg_state>>

\* line 660: is_paused.store(true)
EnginePauseStorePaused ==
    /\ eng.pc = "pause_m_paused"
    /\ mir' = [mir EXCEPT !.is_paused = TRUE]
    /\ eng' = [eng EXCEPT !.pc = "pause_m_playing"]
    /\ UNCHANGED <<audioVars, cbVars, hostVars, ctl, state, rg_state>>

\* line 661: is_playing.store(false)
EnginePauseStorePlaying ==
    /\ eng.pc = "pause_m_playing"
    /\ mir' = [mir EXCEPT !.is_playing = FALSE]
    /\ eng' = [eng EXCEPT !.pc = "pause_state"]
    /\ UNCHANGED <<audioVars, cbVars, hostVars, ctl, state, rg_state>>

\* lines 662-663: state.lock().is_paused = true; state.lock().is_playing = false
EnginePauseState ==
    /\ eng.pc = "pause_state"
    /\ state' = [state EXCEPT !.is_paused = TRUE, !.is_playing = FALSE]
    /\ eng' = EngRecv
    /\ UNCHANGED <<audioVars, cbVars, hostVars, ctl, mir, rg_state>>

\* line 667: decoder_paused.store(false)
EngineResumeDecoder ==
    /\ eng.pc = "resume_dec"
    /\ ctl' = [ctl EXCEPT !.decoder_paused = FALSE]
    /\ eng' = [eng EXCEPT !.pc = "resume_fade"]
    /\ UNCHANGED <<audioVars, cbVars, hostVars, mir, state, rg_state>>

\* line 668: fade_req_resume.store(true)
EngineResumeFade ==
    /\ eng.pc = "resume_fade"
    /\ fade_req_resume' = TRUE
    /\ eng' = [eng EXCEPT !.pc = "resume_m_paused"]
    /\ UNCHANGED <<audioVars, cb, fade_req_stop, fade_req_pause, volume, bit_perfect_cb,
                   dropout_count, hostVars, ctl, mir, state, rg_state>>

\* line 669: is_paused.store(false)
EngineResumeStorePaused ==
    /\ eng.pc = "resume_m_paused"
    /\ mir' = [mir EXCEPT !.is_paused = FALSE]
    /\ eng' = [eng EXCEPT !.pc = "resume_m_playing"]
    /\ UNCHANGED <<audioVars, cbVars, hostVars, ctl, state, rg_state>>

\* line 670: is_playing.store(true)
EngineResumeStorePlaying ==
    /\ eng.pc = "resume_m_playing"
    /\ mir' = [mir EXCEPT !.is_playing = TRUE]
    /\ eng' = [eng EXCEPT !.pc = "resume_state"]
    /\ UNCHANGED <<audioVars, cbVars, hostVars, ctl, state, rg_state>>

\* lines 671-672: state.lock().is_paused = false; state.lock().is_playing = true
EngineResumeState ==
    /\ eng.pc = "resume_state"
    /\ state' = [state EXCEPT !.is_paused = FALSE, !.is_playing = TRUE]
    /\ eng' = EngRecv
    /\ UNCHANGED <<audioVars, cbVars, hostVars, ctl, mir, rg_state>>

EngineTimeout_WhileRunning ==
    /\ eng.pc = "recv"
    /\ cmd_chan = << >>
    /\ ctl.decoder_running
    /\ mir.is_playing
    /\ available_read = 0
    /\ mir' = [mir EXCEPT !.is_playing = FALSE, !.is_paused = FALSE]
    /\ eng' = [eng EXCEPT !.pc = "timeout_drop"]
    /\ UNCHANGED <<audioVars, cbVars, hostVars, ctl, state, rg_state>>

\* lines 720-727: recv_timeout timed out with the track at its end:
\* is_playing.store(false); is_paused.store(false)
EngineTimeout ==
    /\ eng.pc = "recv"
    /\ cmd_chan = << >>
    /\ ~ctl.decoder_running
    /\ mir.is_playing
    /\ available_read = 0
    /\ mir' = [mir EXCEPT !.is_playing = FALSE, !.is_paused = FALSE]
    /\ eng' = [eng EXCEPT !.pc = "timeout_drop"]
    /\ UNCHANGED <<audioVars, cbVars, hostVars, ctl, state, rg_state>>

\* line 728: current_stream = None
EngineTimeoutDropStream ==
    /\ eng.pc = "timeout_drop"
    /\ DropStream
    /\ eng' = [eng EXCEPT !.pc = "timeout_state"]
    /\ UNCHANGED <<audioVars, cbAtomics, hostVars, ctl, mir, state, rg_state>>

\* lines 729-731: s.is_playing = false; s.is_paused = false
EngineTimeoutState ==
    /\ eng.pc = "timeout_state"
    /\ state' = [state EXCEPT !.is_playing = FALSE, !.is_paused = FALSE]
    /\ eng' = EngRecv
    /\ UNCHANGED <<audioVars, cbVars, hostVars, ctl, mir, rg_state>>

\* ---------------------------------------------------- decoder thread

engineSide == <<cmd_chan, hpc, eng, state, rg_state, trace, device, nt, snap>>

\* line 410: while running.load(SeqCst)
WorkerLoopTop(w) ==
    /\ wk[w].pc = "top"
    /\ wk' = [wk EXCEPT ![w] = IF ctl.decoder_running
                               THEN [@ EXCEPT !.pc = "seek_check"]
                               ELSE [WkIdle EXCEPT !.pc = "exited"]]
    /\ UNCHANGED <<ringVars, rd, data, histVars, cbVars, engineSide, ctl, mir>>

\* lines 412-413: let seek_val = seek_r.load(); if seek_val != u64::MAX
WorkerSeekCheck(w) ==
    /\ wk[w].pc = "seek_check"
    /\ wk' = [wk EXCEPT ![w].seek_val = ctl.seek_request_ms,
                        ![w].pc = IF ctl.seek_request_ms # U64_MAX
                                  THEN "seek_reset" ELSE "pause_check"]
    /\ UNCHANGED <<ringVars, rd, data, histVars, cbVars, engineSide, ctl, mir>>

\* line 415: seek_r.store(u64::MAX)
WorkerSeekReset(w) ==
    /\ wk[w].pc = "seek_reset"
    /\ ctl' = [ctl EXCEPT !.seek_request_ms = U64_MAX]
    /\ wk' = [wk EXCEPT ![w].pc = "clear_w"]
    /\ UNCHANGED <<ringVars, rd, data, histVars, cbVars, engineSide, mir>>

\* line 416: ring_c.clear(), its first store
WorkerClearWrite(w) ==
    /\ wk[w].pc = "clear_w"
    /\ ClearStoreWrite
    /\ wk' = [wk EXCEPT ![w].pc = "clear_r"]
    /\ UNCHANGED <<rd, data, histVars, cbVars, engineSide, ctl, mir>>

\* line 416: ring_c.clear(), its second store
WorkerClearRead(w) ==
    /\ wk[w].pc = "clear_r"
    /\ ClearStoreRead
    /\ wk' = [wk EXCEPT ![w].pc = "seek_decoder"]
    /\ UNCHANGED <<rd, data, histVars, cbVars, engineSide, ctl, mir>>

\* lines 417-421: decoder.seek(secs), an Err only logged;
\* samples_decoded = secs * sr.  A target inside the track moves the
\* decoder there; for one at or past its end the format reader either
\* fails, leaving the decoder where it was, or ends up at the end.
WorkerSeekDecoder(w) ==
    /\ wk[w].pc = "seek_decoder"
    /\ LET f == FileAt(wk[w].path)
           target == wk[w].seek_val * f.sample_rate * f.channels
       IN \E p \in (IF target < f.len THEN {target} ELSE {wk[w].dec_pos, f.len}) :
            wk' = [wk EXCEPT ![w].dec_pos = p,
                             ![w].samples_decoded = wk[w].seek_val * f.sample_rate,
                             ![w].pc = "top"]
    /\ UNCHANGED <<ringVars, rd, data, histVars, cbVars, engineSide, ctl, mir>>

\* a decoder thread that does not look at the paused flag
WorkerPauseCheck_Ignored(w) ==
    /\ wk[w].pc = "pause_check"
    /\ wk' = [wk EXCEPT ![w].pc = "backpressure"]
    /\ UNCHANGED <<ringVars, rd, data, histVars, cbVars, engineSide, ctl, mir>>

\* lines 425-428: if paused_d.load() { sleep 10 ms; continue }
WorkerPauseCheck(w) ==
    /\ wk[w].pc = "pause_check"
    /\ wk' = [wk EXCEPT ![w].pc = IF ctl.decoder_paused THEN "top" ELSE "backpressure"]
    /\ UNCHANGED <<ringVars, rd, data, histVars, cbVars, engineSide, ctl, mir>>

\* lines 431-434: if ring_c.available_read() > sr * ch { sleep 5 ms; continue }
WorkerBackpressure(w) ==
    /\ wk[w].pc = "backpressure"
    /\ LET f == FileAt(wk[w].path)
       IN wk' = [wk EXCEPT ![w].pc = IF available_read > f.sample_rate * f.channels
                                     THEN "top" ELSE "decode"]
    /\ UNCHANGED <<ringVars, rd, data, histVars, cbVars, engineSide, ctl, mir>>

\* lines 437-440, 453: decoder.next_samples(): the next packet of the track
\* (sample k of the track is the number k), or EndOfStream at its end;
\* samples_decoded += frames
WorkerDecode(w) ==
    /\ wk[w].pc = "decode"
    /\ LET f == FileAt(wk[w].path)
           n == Min(MaxPacket, f.len - wk[w].dec_pos)
       IN wk' = IF n = 0
                THEN [wk EXCEPT ![w].pc = "drain"]
                ELSE [wk EXCEPT ![w].chunk = [k \in 1..n |-> wk[w].dec_pos + k],
                                ![w].dec_pos = @ + n,
                                ![w].samples_decoded = @ + (n \div f.channels),
                                ![w].pc = "store_pos"]
    /\ UNCHANGED <<ringVars, rd, data, offered, accepted, delivered, emitted, cbVars,
                   engineSide, ctl, mir>>

\* lines 437, 464-468: decoder.next_samples() returns DecodeStatus::Error:
\* running.store(false); break
WorkerDecodeError(w) ==
    /\ wk[w].pc = "decode"
    /\ ctl' = [ctl EXCEPT !.decoder_running = FALSE]
    /\ wk' = [wk EXCEPT ![w] = [WkIdle EXCEPT !.pc = "exited"]]
    /\ UNCHANGED <<ringVars, rd, data, histVars, cbVars, engineSide, mir>>

\* history: the samples next_samples returned (none at EndOfStream)
RecordDecoded(w) ==
    decoded' = IF wk'[w].pc = "store_pos" THEN decoded \o wk'[w].chunk ELSE decoded

\* lines 441-442: pos_ms.store(samples_decoded / sr)
WorkerStorePosition(w) ==
    /\ wk[w].pc = "store_pos"
    /\ mir' = [mir EXCEPT !.position_ms =
                              wk[w].samples_decoded \div FileAt(wk[w].path).sample_rate]
    /\ wk' = [wk EXCEPT ![w].pc = "rg_apply"]
    /\ UNCHANGED <<ringVars, rd, data, histVars, cbVars, engineSide, ctl>>

\* ReplayGainState::apply, lines 123-134
RgApply(rg, samples) ==
    IF Abs(rg.gain_linear - Scale) < F32_EPSILON THEN samples
    ELSE [k \in 1..Len(samples) |-> MulVol(samples[k], rg.gain_linear)]

\* lines 445-448, 451: rg.apply(&mut samples) under the lock, then the call
\* ring_c.write(&samples)
WorkerApplyRg(w) ==
    /\ wk[w].pc = "rg_apply"
    /\ wk' = [wk EXCEPT ![w].chunk = RgApply(rg_state, @), ![w].pc = "w_load_write"]
    /\ UNCHANGED <<ringVars, rd, data, histVars, cbVars, engineSide, ctl, mir>>

\* line 451: write has returned; its result is not used, samples is dropped
WorkerWriteReturn(w) ==
    /\ wk[w].pc = "w_ret"
    /\ wk' = [wk EXCEPT ![w].pc = "top", ![w].chunk = << >>, ![w].write = 0,
                        ![w].to_write = 0, ![w].i = 0]
    /\ UNCHANGED <<ringVars, rd, data, histVars, cbVars, engineSide, ctl, mir>>

\* lines 455-460: after EndOfStream, poll until the ring is empty or running
\* is cleared
WorkerDrain(w) ==
    /\ wk[w].pc = "drain"
    /\ ~ctl.decoder_running \/ available_read = 0
    /\ wk' = [wk EXCEPT ![w].pc = "drain_exit"]
    /\ UNCHANGED <<ringVars, rd, data, histVars, cbVars, engineSide, ctl, mir>>

\* lines 461-462: running.store(false); break
WorkerDrainExit(w) ==
    /\ wk[w].pc = "drain_exit"
    /\ ctl' = [ctl EXCEPT !.decoder_running = FALSE]
    /\ wk' = [wk EXCEPT ![w] = [WkIdle EXCEPT !.pc = "exited"]]
    /\ UNCHANGED <<ringVars, rd, data, histVars, cbVars, engineSide, mir>>

\* ------------- engine specification: a host sending Play, Seek and Stop,
\* the engine thread, the decoder threads it spawns and the stream's callback

\* the commands of the engine specification: Play of the low-rate track,
\* Seek to second 1, Stop
SeekTargets == {1}
EngineCmds ==
    {Cmd("Play", p) : p \in {1}} \cup {Cmd("Seek", t) : t \in SeekTargets}
        \cup {Cmd("Stop", 0)}

Host == 1

\* the OS asks for a slice of n samples; the slice arrives zeroed
CallbackEnterZeroed ==
    \E n \in 1..MaxOut : CallbackInvoke([k \in 1..n |-> 0])

\* the OS asks for slices of one fixed length
CallbackEnterFull == CallbackInvoke([k \in 1..MaxOut |-> 0])

HostSend ==
    \E c \in EngineCmds :
        /\ trace.sent < MaxCmds
        /\ c.kind = "Play" => trace.plays < MaxWorkers
        /\ SendCommand(Host, c)

EngineStart ==
    /\ RingNew
    /\ EngineNew
    /\ snap = SnapNone
    /\ wk = [w \in Workers |-> [WkIdle EXCEPT !.pc = "unborn"]]
    /\ rd = RdIdle
    /\ data = << >>
    /\ offered = 0
    /\ accepted = << >>
    /\ delivered = << >>
    /\ decoded = << >>
    /\ emitted = << >>
    /\ cb = CbNone
    /\ fade_req_stop = FALSE
    /\ fade_req_pause = FALSE
    /\ fade_req_resume = FALSE
    /\ volume = Scale
    /\ bit_perfect_cb = TRUE
    /\ dropout_count = 0

\* a host whose default output device covers the rates of the files played
InitEngine ==
    /\ EngineStart
    /\ device = DefaultDevice
    /\ nt = NtNone

\* the Play handler, lines 307-655
PlayStep ==
    \/ EnginePlayStopDecoder
    \/ EnginePlayDropStream
    \/ EnginePlayOpen
    \/ EnginePlayLoadRg
    \/ EnginePlayState
    \/ EnginePlayStorePlaying
    \/ EnginePlayStorePaused
    \/ EnginePlayStoreRest
    \/ EnginePlayBitPerfect
    \/ EnginePlayClearWrite
    \/ EnginePlayClearRead
    \/ EnginePlayResetFlags
    \/ EnginePlaySetRunning
    \/ EnginePlaySpawn
    \/ EnginePlayBuildStream

\* the Stop handler, lines 675-689
StopStep ==
    \/ EngineStopFade
    \/ EngineStopDecoder
    \/ EngineStopDropStream
    \/ EngineStopClearWrite
    \/ EngineStopClearRead
    \/ EngineStopStorePlaying
    \/ EngineStopStorePaused
    \/ EngineStopState

\* the Seek handler, lines 691-695
SeekStep ==
    \/ EngineSeekRequest
    \/ EngineSeekPosition

\* the Timeout arm, lines 720-733
TimeoutStep ==
    \/ EngineTimeout
    \/ EngineTimeoutDropStream
    \/ EngineTimeoutState

\* the decoder thread's seek handling, lines 413-422
WorkerSeekStep(w) ==
    \/ WorkerSeekReset(w)
    \/ WorkerClearWrite(w)
    \/ WorkerClearRead(w)
    \/ WorkerSeekDecoder(w)

\* the rest of the decoder thread's loop, except the two steps that the
\* histories follow
WorkerStep(w) ==
    \/ WorkerLoopTop(w)
    \/ WorkerSeekCheck(w)
    \/ WorkerPauseCheck(w)
    \/ WorkerBackpressure(w)
    \/ WorkerStorePosition(w)
    \/ WorkerApplyRg(w)
    \/ WriteLoadWrite(w)
    \/ WriteLoadRead(w)
    \/ WriteCopy(w)
    \/ WorkerWriteReturn(w)
    \/ WorkerDrain(w)
    \/ WorkerDrainExit(w)

\* the callback after its entry, except the two steps that the histories
\* follow
CallbackStep ==
    \/ CallbackSwapStop
    \/ CallbackSwapPause
    \/ CallbackSwapResume
    \/ CallbackLoadVol
    \/ CallbackDispatch
    \/ ReadLoadRead
    \/ ReadLoadWrite
    \/ ReadCopy
    \/ CallbackReturn

NextEngine ==
    \/ HostSend
    \/ EngineRecv /\ UNCHANGED snap
    \/ PlayStep
    \/ StopStep
    \/ SeekStep
    \/ TimeoutStep
    \/ \E w \in Workers :
         \/ WorkerStep(w)
         \/ WorkerSeekStep(w)
         \/ WorkerDecode(w) /\ UNCHANGED decoded
         \/ WritePublish(w) /\ UNCHANGED accepted
    \/ CallbackEnterFull
    \/ CallbackStep
    \/ ReadPublish /\ UNCHANGED delivered
    \/ CallbackProcess /\ UNCHANGED emitted

SpecEngine == InitEngine /\ [][NextEngine]_vars

\* a decoder thread that has been spawned and has not left its loop
Alive(w) == wk[w].pc \notin {"unborn", "exited"}

\* thread w is inside RingBuffer::write, past its first load
InsideWrite(w) == wk[w].pc \in {"w_load_read", "w_copy", "w_publish"}

\* the callback is inside RingBuffer::read, past its first load
InsideRead == rd.pc \in {"r_load_write", "r_copy", "r_publish"}

\* some thread is inside RingBuffer::clear, between its two stores
InsideClear ==
    \/ eng.pc \in {"play_clear_r", "stop_clear_r"}
    \/ \E w \in Workers : wk[w].pc = "clear_r"

\* C3: while a thread is inside clear, no decoder thread is inside write and
\* the callback is not inside read.
C3_ClearExclusive ==
    InsideClear => (~InsideRead /\ \A w \in Workers : ~InsideWrite(w))

\* C4: at most one decoder thread is alive.
C4_OneWorker == Cardinality({w \in Workers : Alive(w)}) <= 1

\* ------------- pipeline specification: one Play of either track and its
\* playback to the end, with the histories of what was decoded, what the
\* ring accepted and what the callback emitted

HostPlay ==
    \E p \in Paths :
        /\ trace.sent = 0
        /\ SendCommand(Host, Cmd("Play", p))

NextPipeline ==
    \/ HostPlay
    \/ EngineRecv /\ UNCHANGED snap
    \/ PlayStep
    \/ TimeoutStep
    \/ \E w \in Workers :
         \/ WorkerStep(w)
         \/ WorkerDecode(w) /\ RecordDecoded(w)
         \/ WritePublish(w) /\ RecordAccepted(w)
    \/ CallbackEnterZeroed
    \/ CallbackStep
    \/ ReadPublish /\ UNCHANGED delivered
    \/ CallbackProcess /\ RecordEmitted

SpecPipeline == InitEngine /\ [][NextPipeline]_vars

\* C5: whenever the decoder thread is back at the head of its loop, the
\* samples the ring has accepted are exactly the samples decoded so far, in
\* decode order: nothing of a chunk is discarded after a short write.
C5_NoSampleLost ==
    \A w \in Workers : wk[w].pc = "top" => accepted = decoded

\* the playback has run to its end: the decoder thread has exited after
\* draining the ring and no callback invocation is in progress
PlaybackEnded ==
    /\ wk[1].pc = "exited"
    /\ available_read = 0
    /\ cb.pc \in {"none", "idle", "done"}

\* C6: with volume 1.0, replay gain Off, no resampling and no dropout, in a
\* playback started by Play and not disturbed by another command, what the
\* callback has emitted is a prefix of what the decoder produced, and equals
\* it once the playback has ended.
C6_BitPerfectEndToEnd ==
    (/\ volume = Scale
     /\ rg_state.mode = "Off"
     /\ ~state.resampled
     /\ dropout_count = 0
     /\ trace.sent = 1)
    => /\ IsPrefix(emitted, decoded)
       /\ PlaybackEnded => emitted = decoded

\* ------------- channel specification: host threads sending SetVolume
\* commands through the bounded channel while the engine thread handles them

HostSetVolume(h) ==
    \E v \in Volumes :
        /\ trace.sent < MaxSends
        /\ SendCommand(h, Cmd("SetVolume", v))

NextChannel ==
    \/ \E h \in 1..MaxHosts :
         \/ HostSetVolume(h)
         \/ SendWake(h)
    \/ EngineRecv /\ UNCHANGED snap
    \/ EngineSetVolume
    \/ EngineSetVolumeBitPerfect

SpecChannel == InitEngine /\ [][NextChannel]_vars

\* C10: no host thread is ever parked inside send_command: a send on a full
\* channel returns at once.
C10_SendNeverBlocks == \A h \in 1..MaxHosts : hpc[h].pc # "blocked"

\* ------------- fault specification: Play commands, for a file that opens and
\* for a path that does not, on hosts whose output device is missing or
\* refuses the stream

\* a path at which AudioDecoder::open returns Err
BadPath == 3

\* hosts as cpal can report them
Devices ==
    {DefaultDevice,
     [DefaultDevice EXCEPT !.present = FALSE],
     [DefaultDevice EXCEPT !.build_ok = FALSE],
     [DefaultDevice EXCEPT !.play_ok = FALSE]}

\* the output stream is held in current_stream
StreamPresent == cb.pc # "none"

\* history: the command taken from the channel and what the engine state was
\* when it was taken
RecordSnapshot ==
    snap' = [kind |-> Head(cmd_chan).kind, arg |-> Head(cmd_chan).arg,
             decoder_running |-> ctl.decoder_running,
             stream |-> StreamPresent, is_playing |-> mir.is_playing,
             is_paused |-> mir.is_paused, state |-> state]

HostPlayAny ==
    \E p \in {1, BadPath} :
        /\ trace.sent < MaxCmds
        /\ SendCommand(Host, Cmd("Play", p))

InitFaults ==
    /\ EngineStart
    /\ device \in Devices
    /\ nt = NtNone

NextFaults ==
    \/ HostPlayAny
    \/ EngineRecv /\ RecordSnapshot
    \/ PlayStep
    \/ TimeoutStep
    \/ \E w \in Workers :
         \/ WorkerStep(w)
         \/ WorkerDecode(w) /\ UNCHANGED decoded
         \/ WritePublish(w) /\ UNCHANGED accepted
    \/ CallbackEnterFull
    \/ CallbackStep
    \/ ReadPublish /\ UNCHANGED delivered
    \/ CallbackProcess /\ UNCHANGED emitted

SpecFaults == InitFaults /\ [][NextFaults]_vars

\* C11: no failure of Play ends the engine thread: the thread never panics,
\* whatever the file and the output device, so the loop stays there to take
\* the commands sent afterwards.
C11_EngineSurvives == eng.pc # "panicked"

\* C12: when Play fails to open the decoder, the handler returns with the
\* engine as it was when the command was taken: the stream is still held,
\* the running flag of a decoder thread that is still alive, the playing and
\* paused mirrors and the PlaybackState are what they were.
C12_FailedOpenKeepsState ==
    [][(eng.pc = "play_open" /\ ~FileAt(eng.cmd.arg).ok /\ eng'.pc = "recv")
         => /\ StreamPresent' = snap.stream
            /\ (\E w \in Workers : Alive(w)')
                  => ctl'.decoder_running = snap.decoder_running
            /\ mir'.is_playing = snap.is_playing
            /\ mir'.is_paused = snap.is_paused
            /\ state' = snap.state]_vars

\* ------------- control specification: one Play, on a device that covers the
\* file's rate or on one that does not, with SetVolume, SetReplayGain and
\* SetClippingPrevention commands before and after it

MaxControls == 2

\* volumes asked for: half, the largest f32 below 1.0, 1.0, and one above
\* the range
ControlVolumes == {50, Scale - 1, Scale, 120}

ControlCmds ==
    {Cmd("SetVolume", v) : v \in ControlVolumes}
      \cup {Cmd("SetReplayGain", md) : md \in {"Off", "Track"}}
      \cup {Cmd("SetClippingPrevention", on) : on \in BOOLEAN}

HostControl ==
    \/ /\ trace.plays = 0
       /\ SendCommand(Host, Cmd("Play", 1))
    \/ \E c \in ControlCmds :
         /\ trace.sent - trace.plays < MaxControls
         /\ cmd_chan = << >>
         /\ SendCommand(Host, c)

\* the SetVolume, SetReplayGain and SetClippingPrevention handlers,
\* lines 697-710
ControlStep ==
    \/ EngineSetVolume
    \/ EngineSetReplayGain
    \/ EngineSetClippingPrevention
    \/ EngineSetVolumeBitPerfect

InitControls ==
    /\ EngineStart
    /\ device \in {DefaultDevice, [DefaultDevice EXCEPT !.native = FALSE]}
    /\ nt = NtNone

NextControls ==
    \/ HostControl
    \/ EngineRecv /\ RecordSnapshot
    \/ PlayStep
    \/ EnginePlayResampledOverride
    \/ ControlStep
    \/ TimeoutStep
    \/ \E w \in Workers :
         \/ WorkerStep(w)
         \/ WorkerDecode(w) /\ UNCHANGED decoded
         \/ WritePublish(w) /\ UNCHANGED accepted
    \/ CallbackEnterFull
    \/ CallbackStep
    \/ ReadPublish /\ UNCHANGED delivered
    \/ CallbackProcess /\ UNCHANGED emitted

SpecControls == InitControls /\ [][NextControls]_vars

\* the engine thread is between commands
AtRest == eng.pc = "recv"

\* C13: while the track that was started is a resampled one, whenever the
\* engine is between commands is_bit_perfect and the callback's copy are
\* false, whatever volume and replay-gain commands were handled since.
C13_ResampledNeverBitPerfect ==
    (AtRest /\ state.resampled) => (~mir.is_bit_perfect /\ ~bit_perfect_cb)

get_state ==
    [state EXCEPT !.position_secs = mir.position_ms,
                  !.duration_secs = mir.duration_ms,
                  !.is_playing = mir.is_playing,
                  !.is_paused = mir.is_paused]

HostPlayStop ==
    \E c \in {Cmd("Play", 1), Cmd("Stop", 0)} :
        /\ trace.sent < MaxCmds
        /\ SendCommand(Host, c)

NextStop ==
    \/ HostPlayStop
    \/ EngineRecv /\ RecordSnapshot
    \/ PlayStep
    \/ StopStep
    \/ TimeoutStep
    \/ \E w \in Workers :
         \/ WorkerStep(w)
         \/ WorkerDecode(w) /\ UNCHANGED decoded
         \/ WritePublish(w) /\ UNCHANGED accepted
    \/ CallbackEnterFull
    \/ CallbackStep
    \/ ReadPublish /\ UNCHANGED delivered
    \/ CallbackProcess /\ UNCHANGED emitted

SpecStop == InitEngine /\ [][NextStop]_vars

\* the command handled last is a Stop and no other has been taken since
StopHandled == AtRest /\ snap.kind = "Stop"

\* C15: once Stop has been handled, get_playback_state returns the default
\* PlaybackState, position and duration included, whatever was playing.
C15_StopResetsState == StopHandled => get_state = PlaybackStateDefault

\* C16: once Stop has been handled the ring buffer is empty, and it stays
\* empty until the next Play is taken, whatever the decoder thread that is
\* being stopped was doing.
C16_StopEmptiesRing == StopHandled => available_read = 0

\* ------------- pause specification: one Play, then Pause and Resume
\* commands, each sent once the engine has taken the one before

MaxToggles == 3

HostPauseResume ==
    \/ /\ trace.sent = 0
       /\ SendCommand(Host, Cmd("Play", 1))
    \/ \E k \in {"Pause", "Resume"} :
         /\ trace.plays = 1
         /\ trace.sent < 1 + MaxToggles
         /\ cmd_chan = << >>
         /\ SendCommand(Host, Cmd(k, 0))

\* the Pause handler, lines 657-664
PauseStep ==
    \/ EnginePauseFade
    \/ EnginePauseDecoder
    \/ EnginePauseStorePaused
    \/ EnginePauseStorePlaying
    \/ EnginePauseState

\* the Resume handler, lines 666-673
ResumeStep ==
    \/ EngineResumeDecoder
    \/ EngineResumeFade
    \/ EngineResumeStorePaused
    \/ EngineResumeStorePlaying
    \/ EngineResumeState

NextPause ==
    \/ HostPauseResume
    \/ EngineRecv /\ RecordSnapshot
    \/ PlayStep
    \/ PauseStep
    \/ ResumeStep
    \/ TimeoutStep
    \/ \E w \in Workers :
         \/ WorkerStep(w)
         \/ WorkerDecode(w) /\ UNCHANGED decoded
         \/ WritePublish(w) /\ UNCHANGED accepted
    \/ CallbackEnterFull
    \/ CallbackStep
    \/ ReadPublish /\ UNCHANGED delivered
    \/ CallbackProcess /\ UNCHANGED emitted

SpecPause == InitEngine /\ [][NextPause]_vars

\* C17: an invocation of the callback that begins in Silent with Pause the
\* last command handled, and ends with no other command taken meanwhile,
\* has read nothing from the ring and left only zeros in the slice.
C17_PausedSilence ==
    (cb.pc = "done" /\ cb.quiet /\ snap.kind = "Pause" /\ AtRest)
    => /\ cb.raw = << >>
       /\ \A p \in 1..Len(data) : data[p] = 0

\* ------------- end-of-track specifications: one Play and one Seek, inside
\* the track or past its end, with every thread scheduled fairly

\* seconds to seek to: inside the track of path 1, and past its end
SeekDestinations == {1, TrackLen + 1}

HostPlaySeek ==
    \/ /\ trace.sent = 0
       /\ SendCommand(Host, Cmd("Play", 1))
    \/ \E t \in SeekDestinations :
         /\ trace.sent = 1
         /\ SendCommand(Host, Cmd("Seek", t))

\* the engine thread's steps other than dropping the stream
EngineRun ==
    \/ EngineRecv /\ RecordSnapshot
    \/ EnginePlayStopDecoder
    \/ EnginePlayOpen
    \/ EnginePlayLoadRg
    \/ EnginePlayState
    \/ EnginePlayStorePlaying
    \/ EnginePlayStorePaused
    \/ EnginePlayStoreRest
    \/ EnginePlayBitPerfect
    \/ EnginePlayClearWrite
    \/ EnginePlayClearRead
    \/ EnginePlayResetFlags
    \/ EnginePlaySetRunning
    \/ EnginePlaySpawn
    \/ EnginePlayBuildStream
    \/ SeekStep
    \/ EngineTimeout
    \/ EngineTimeoutState

\* current_stream = None, which waits for a running invocation to return
EngineDrop ==
    \/ EnginePlayDropStream
    \/ EngineTimeoutDropStream

\* the decoder thread's steps, a decode Error apart
WorkerRun(w) ==
    \/ WorkerStep(w)
    \/ WorkerSeekStep(w)
    \/ WorkerDecode(w) /\ UNCHANGED decoded
    \/ WritePublish(w) /\ UNCHANGED accepted

\* the device thread: invocations of the callback and their steps
CallbackRun ==
    \/ CallbackEnterFull
    \/ CallbackStep
    \/ ReadPublish /\ UNCHANGED delivered
    \/ CallbackProcess /\ UNCHANGED emitted

NextEnd ==
    \/ HostPlaySeek
    \/ EngineRun
    \/ EngineDrop
    \/ \E w \in Workers : WorkerRun(w)
    \/ CallbackRun

\* every thread that can take a step eventually takes one; the drop of the
\* stream, which can proceed whenever the callback is between invocations,
\* is not overtaken by invocations for ever
FairEnd ==
    /\ WF_vars(EngineRun)
    /\ SF_vars(EngineDrop)
    /\ \A w \in Workers : WF_vars(WorkerRun(w))
    /\ WF_vars(CallbackRun)

SpecEnd == InitEngine /\ [][NextEnd]_vars /\ FairEnd

\* the same, with a decoder that may fail on any packet
NextEndError ==
    \/ NextEnd
    \/ \E w \in Workers : WorkerDecodeError(w) /\ UNCHANGED decoded

SpecEndError == InitEngine /\ [][NextEndError]_vars /\ FairEnd

\* the Seek taken last, during playback, names a second at or past the end
\* of the track, and has been handled
SeekPastEndHandled ==
    /\ AtRest
    /\ snap.kind = "Seek"
    /\ snap.is_playing
    /\ snap.arg >= mir.duration_ms

\* C18: after a Seek past the end of the track during playback the engine
\* eventually is not playing, with the position mirror at zero.
C18_SeekPastEndEnds ==
    SeekPastEndHandled ~> (~mir.is_playing /\ mir.position_ms = 0)

\* the Seek handler has just published its request, with the running flag of
\* the decoder thread set
SeekPublished ==
    /\ eng.pc = "seek_pos"
    /\ ctl.seek_request_ms # U64_MAX
    /\ ctl.decoder_running

\* C19: a Seek request published while the decoder thread's running flag is
\* set is eventually picked up by the thread, which resets the request to
\* the no-seek value.
C19_SeekPickedUp == SeekPublished ~> (ctl.seek_request_ms = U64_MAX)

\* the decoder thread has left its loop, by EndOfStream or by a decode
\* Error, with the engine playing and not paused
WorkerGone ==
    /\ \E w \in Workers : wk[w].pc = "exited"
    /\ mir.is_playing
    /\ ~mir.is_paused

\* the engine has cleared both flags and holds no stream
PlaybackClosed == ~mir.is_playing /\ ~mir.is_paused /\ ~StreamPresent

\* C20: once the decoder thread has exited during unpaused playback, the
\* engine eventually clears is_playing and is_paused and drops the stream.
C20_EndOfTrackDetected == WorkerGone ~> PlaybackClosed

\* the timeout arm has dropped the stream of a track whose decoder thread
\* exited
C20_Witness ==
    /\ \E w \in Workers : wk[w].pc = "exited"
    /\ eng.pc = "timeout_state"
    /\ PlaybackClosed

\* ------------- repeat specification: one Play, then commands of which any
\* may be sent a second time while the engine is still handling the first;
\* the decoder thread and the device thread are not scheduled between the
\* sending of a command and the end of its handling, so that the second
\* handling starts in the state the first one left

MaxRepeat == 3

RepeatCmds ==
    {Cmd("Pause", 0), Cmd("Resume", 0), Cmd("Stop", 0), Cmd("Seek", 1),
     Cmd("SetVolume", 50), Cmd("SetReplayGain", "Track"),
     Cmd("SetClippingPrevention", FALSE)}

\* the engine waits in recv_timeout and nothing is queued
Calm == eng.pc = "recv" /\ cmd_chan = << >>

\* what a repeated command is compared on: the atomic mirrors, the
\* PlaybackState, the replay-gain state, the callback's fade state and
\* counter, and the fade requests the callback has yet to consume
Compared ==
    [mir |-> mir, volume |-> volume, bit_perfect_cb |-> bit_perfect_cb,
     dropout_count |-> dropout_count, state |-> state, rg_state |-> rg_state,
     fade |-> cb.fade, fade_ctr |-> cb.fade_ctr,
     fade_req_stop |-> fade_req_stop, fade_req_pause |-> fade_req_pause,
     fade_req_resume |-> fade_req_resume]

\* history: the command taken, the one taken before it, and the compared
\* state at the moment of taking
RecordRepeat ==
    snap' = [kind |-> Head(cmd_chan).kind, arg |-> Head(cmd_chan).arg,
             decoder_running |-> ctl.decoder_running,
             stream |-> StreamPresent, is_playing |-> mir.is_playing,
             is_paused |-> mir.is_paused, state |-> state,
             prev |-> Cmd(snap.kind, snap.arg), before |-> Compared]

HostRepeat ==
    \/ /\ trace.sent = 0
       /\ SendCommand(Host, Cmd("Play", 1))
    \/ \E c \in RepeatCmds :
         /\ trace.plays = 1
         /\ trace.sent < MaxRepeat
         /\ Calm
         /\ cb.pc \in {"none", "idle"}
         /\ c # Cmd(snap.kind, snap.arg)
         /\ SendCommand(Host, c)
    \/ /\ eng.pc \notin {"recv", "panicked"}
       /\ eng.cmd \in RepeatCmds
       /\ cmd_chan = << >>
       /\ trace.sent < MaxRepeat
       /\ SendCommand(Host, eng.cmd)

NextRepeat ==
    \/ HostRepeat
    \/ EngineRecv /\ RecordRepeat
    \/ PlayStep
    \/ StopStep
    \/ SeekStep
    \/ PauseStep
    \/ ResumeStep
    \/ ControlStep
    \/ TimeoutStep
    \/ \E w \in Workers :
         /\ Calm
         /\ \/ WorkerStep(w)
            \/ WorkerSeekStep(w)
            \/ WorkerDecode(w) /\ UNCHANGED decoded
            \/ WritePublish(w) /\ UNCHANGED accepted
    \/ Calm /\ CallbackEnterFull
    \/ CallbackStep
    \/ ReadPublish /\ UNCHANGED delivered
    \/ CallbackProcess /\ UNCHANGED emitted

SpecRepeat == InitEngine /\ [][NextRepeat]_vars

\* the engine is on the last step of handling a command that it also
\* handled immediately before
RepeatEnds ==
    /\ eng.pc # "recv"
    /\ eng'.pc = "recv"
    /\ eng.cmd \in RepeatCmds
    /\ snap.prev = eng.cmd

\* C21: handling Pause, Resume, Stop, Seek(s), SetVolume(v),
\* SetReplayGain(m) or SetClippingPrevention(b) a second time in succession
\* leaves the atomic mirrors, the PlaybackState, the replay-gain state and
\* the callback's fade state, counter and pending fade requests as the first
\* handling left them.
C21_Idempotent == [][RepeatEnds => Compared' = snap.before]_vars

\* a second Pause in succession is on its last step with a stream open
C21_Witness ==
    /\ eng.pc = "pause_state"
    /\ snap.prev = Cmd("Pause", 0)
    /\ StreamPresent

\* ------------- null-test specification: the comparison of run_null_test
\* applied to two decoded sample sequences

MaxNull == 2

\* sample values a decoder can return for a 32-bit float file
NullSamples == {Finite(0), Finite(50), Infinite(1), NaN}

NullSequences == UNION {[1..n -> NullSamples] : n \in 0..MaxNull}

\* line 76: (samples_a[i] as f64) - (samples_b[i] as f64), IEEE 754
Sub64(a, b) ==
    IF a.cls = "nan" \/ b.cls = "nan" THEN NaN
    ELSE IF a.cls = "inf" /\ b.cls = "inf"
         THEN (IF a.v = b.v THEN NaN ELSE a)
    ELSE IF a.cls = "inf" THEN a
    ELSE IF b.cls = "inf" THEN Infinite(0 - b.v)
    ELSE Finite(a.v - b.v)

\* line 77: diff.abs() > 0.0, false for a NaN
AbsPositive(x) == x.cls = "inf" \/ (x.cls = "finite" /\ x.v # 0)

\* line 79: diff.abs(), of a value that is not a NaN
Abs64(x) == IF x.cls = "inf" THEN Infinite(1) ELSE Finite(Abs(x.v))

\* line 80: abs_diff > max_diff, of two values that are not negative
Greater64(x, y) ==
    IF x.cls = "inf" THEN y.cls # "inf"
    ELSE y.cls = "finite" /\ x.v > y.v

\* line 83: sum_sq + diff * diff, the product in units of 1/Scale^2
AddSquare64(sum, x) ==
    IF sum.cls = "inf" \/ x.cls = "inf" THEN Infinite(1)
    ELSE Finite(sum.v + x.v * x.v)

\* lines 46-73: both passes have decoded; len and the zeroed accumulators
NullTestStart(a, b) ==
    [NtNone EXCEPT !.pc = "loop", !.samples_a = a, !.samples_b = b,
                   !.total_samples = Min(Len(a), Len(b))]

nullRest == <<audioVars, cbVars, cmd_chan, hpc, eng, ctl, mir, state, rg_state,
              trace, device, snap>>

\* lines 75-85: one iteration of the comparison loop
NullTestLoop ==
    /\ nt.pc = "loop"
    /\ nt.i < nt.total_samples
    /\ LET diff == Sub64(nt.samples_a[nt.i + 1], nt.samples_b[nt.i + 1])
           abs_diff == Abs64(diff)
       IN  nt' = IF AbsPositive(diff)
                 THEN [nt EXCEPT !.i = nt.i + 1,
                                 !.diff_count = nt.diff_count + 1,
                                 !.max_diff = IF Greater64(abs_diff, nt.max_diff)
                                              THEN abs_diff ELSE nt.max_diff,
                                 !.sum_sq = AddSquare64(nt.sum_sq, diff)]
                 ELSE [nt EXCEPT !.i = nt.i + 1]
    /\ UNCHANGED nullRest

\* lines 87-90: the length mismatch is added to diff_count
NullTestLength ==
    /\ nt.pc = "loop"
    /\ nt.i = nt.total_samples
    /\ nt' = [nt EXCEPT !.pc = "passed",
                        !.diff_count =
                            IF Len(nt.samples_a) # Len(nt.samples_b)
                            THEN nt.diff_count + Abs(Len(nt.samples_a) - Len(nt.samples_b))
                            ELSE nt.diff_count]
    /\ UNCHANGED nullRest

\* lines 98-119: passed, and the result returned
NullTestResult ==
    /\ nt.pc = "passed"
    /\ nt' = [nt EXCEPT !.pc = "done",
                        !.passed = (nt.diff_count = 0
                                    /\ Len(nt.samples_a) = Len(nt.samples_b))]
    /\ UNCHANGED nullRest

InitNull ==
    /\ EngineStart
    /\ device = DefaultDevice
    /\ \E a \in NullSequences, b \in NullSequences : nt = NullTestStart(a, b)

NextNull ==
    \/ NullTestLoop
    \/ NullTestLength
    \/ NullTestResult

SpecNull == InitNull /\ [][NextNull]_vars

\* the indices at which both sequences have a sample and the two are not
\* the same value (a NaN counting as the same value as a NaN)
DifferingPairs ==
    {k \in 1..Min(Len(nt.samples_a), Len(nt.samples_b)) :
        nt.samples_a[k] # nt.samples_b[k]}

\* C22: run_null_test reports passed exactly when the two sequences have the
\* same length and the same sample at every index, and diff_samples is the
\* number of differing pairs plus the difference of the two lengths (0 when
\* it passes).
C22_NullTestExact ==
    nt.pc = "done"
    => /\ nt.passed <=> (/\ Len(nt.samples_a) = Len(nt.samples_b)
                         /\ DifferingPairs = {})
       /\ nt.diff_count = Cardinality(DifferingPairs)
                            + Abs(Len(nt.samples_a) - Len(nt.samples_b))

\* ------------- replay-gain specification: set_mode,
\* set_clipping_prevention, load_from_file and apply called in any order on
\* one ReplayGainState, on files with any of the tags below

\* values of the gain tags, in dB, and of the peak tags; None: no such tag
GainTags == {None, Some(-6), Some(0), Some(6)}
PeakTags == {None, Some(0), Some(Scale \div 2), Some(Scale + Scale \div 2)}

ReplayGainInfos ==
    [track_gain_db : GainTags, track_peak : PeakTags,
     album_gain_db : GainTags, album_peak : PeakTags]

\* buffers handed to apply
GainChunks == {<<50>>, <<-60, 99>>}

gainRest == <<ringVars, rd, data, offered, accepted, delivered, emitted, nonRingVars>>

GainSetMode ==
    /\ \E mode \in {"Off", "Track", "Album"} : rg_state' = set_mode(rg_state, mode)
    /\ UNCHANGED <<audioVars, cbVars, hostVars, eng, ctl, mir, state>>

GainSetClippingPrevention ==
    /\ \E on \in BOOLEAN : rg_state' = set_clipping_prevention(rg_state, on)
    /\ UNCHANGED <<audioVars, cbVars, hostVars, eng, ctl, mir, state>>

GainLoadFromFile ==
    /\ \E info \in ReplayGainInfos : rg_state' = load_from_file(rg_state, info)
    /\ UNCHANGED <<audioVars, cbVars, hostVars, eng, ctl, mir, state>>

\* apply on a buffer; decoded keeps the buffer as it was handed over
GainApply ==
    /\ \E samples \in GainChunks :
         /\ decoded' = samples
         /\ wk' = [wk EXCEPT ![1].chunk = RgApply(rg_state, samples)]
    /\ UNCHANGED gainRest

NextGain ==
    \/ GainSetMode
    \/ GainSetClippingPrevention
    \/ GainLoadFromFile
    \/ GainApply

SpecGain == InitEngine /\ [][NextGain]_vars

\* C23: after any sequence of set_mode, set_clipping_prevention and
\* load_from_file, mode Off has gain_linear exactly 1.0, and an apply made
\* while gain_linear is 1.0 returns its buffer unchanged.
C23_OffIsUnity ==
    [][/\ rg_state'.mode = "Off" => rg_state'.gain_linear = Scale
       /\ (wk' # wk /\ rg_state.gain_linear = Scale) => wk'[1].chunk = decoded']_vars

\* apply has run with gain_linear 1.0 in a mode other than Off
C23_Witness ==
    /\ rg_state.mode # "Off"
    /\ rg_state.gain_linear = Scale
    /\ decoded # << >>
    /\ wk[1].chunk = decoded

\* the gain tag and the peak tag recalculate_gain takes for the mode
GainFor(rg) ==
    IF rg.mode = "Track" THEN rg.info.track_gain_db
    ELSE OrElse(rg.info.album_gain_db, rg.info.track_gain_db)

PeakFor(rg) ==
    IF rg.mode = "Track" THEN rg.info.track_peak
    ELSE OrElse(rg.info.album_peak, rg.info.track_peak)

\* gain_linear x peak <= 1.0, up to the rounding of 1.0 / peak to the nearest
\* representable value
WithinPeak(rg) ==
    2 * rg.gain_linear * PeakFor(rg).v <= 2 * Scale * Scale + PeakFor(rg).v

\* clipping prevention is on, the mode is Track or Album and the file has a
\* positive peak for the mode
ClampApplies(rg) ==
    /\ rg.clipping_prevention
    /\ rg.mode \in {"Track", "Album"}
    /\ PeakFor(rg).some
    /\ PeakFor(rg).v > 0

LimitSignal == <<F32_INFINITY, 150, F32_NAN, -F32_INFINITY, -60>>

\* the decoder worker writes a chunk of the signal
EnvWriteNonFinite ==
    /\ CallbackQuiet
    /\ \E n \in 1..MaxChunk :
        /\ offered + n <= MaxFeed
        /\ offered' = offered + n
        /\ wk' = [wk EXCEPT ![Producer] =
                    [WkIdle EXCEPT !.pc = "w_load_write",
                                   !.chunk = [k \in 1..n |->
                                       LimitSignal[((offered + k - 1) % Len(LimitSignal)) + 1]]]]
    /\ UNCHANGED <<ringVars, rd, data, accepted, delivered, decoded, emitted,
                   nonRingVars>>

NextLimit ==
    \/ EnvWriteNonFinite
    \/ WriteLoadWrite(Producer)
    \/ WriteLoadRead(Producer)
    \/ WriteCopy(Producer)
    \/ WritePublish(Producer) /\ UNCHANGED accepted
    \/ ProducerReturn
    \/ EnvFadeRequest
    \/ EnvSetVolume
    \/ EnvSetBitPerfect
    \/ CallbackEnter
    \/ CallbackStep
    \/ ReadPublish /\ UNCHANGED delivered
    \/ CallbackProcess /\ UNCHANGED emitted

SpecLimit == InitCallback /\ [][NextLimit]_vars

\* C25: a callback that loaded is_bit_perfect_cb = false leaves only values
\* of [-0.99, 0.99] in its output slice, in whatever fade state it ran, and
\* 0 where the sample read, scaled by the volume, is not finite.
C25_OutputLimited ==
    (cb.pc = "done" /\ ~cb.bit_perfect) =>
        \A p \in 1..Len(data) :
            /\ data[p] >= -HARD_LIMIT_CEILING
            /\ data[p] <= HARD_LIMIT_CEILING
            /\ (p <= Len(cb.raw) /\ ~is_finite(MulVol(cb.raw[p], cb.vol))) => data[p] = 0

\* a fade-in callback without bit-perfect has read an infinity or a NaN
C25_Witness ==
    /\ CallbackDone("FadingIn")
    /\ ~cb.bit_perfect
    /\ \E p \in 1..Len(cb.raw) : ~is_finite(cb.raw[p])

\* C26: the fade counter stays within 0..FADE_RAMP_SAMPLES, so the progress
\* counter / ramp within [0, 1], and from one step of the callback to the
\* next it does not rise while the fade state stays FadingOut and does not
\* fall while it stays FadingIn, whatever request the callback consumes.
C26_FadeMonotonic ==
    [][(cb.pc # "none" /\ cb'.pc # "none")
       => /\ cb'.fade_ctr \in 0..FADE_RAMP_SAMPLES
          /\ (cb.fade = "FadingOut" /\ cb'.fade = "FadingOut")
                => cb'.fade_ctr <= cb.fade_ctr
          /\ (cb.fade = "FadingIn" /\ cb'.fade = "FadingIn")
                => cb'.fade_ctr >= cb.fade_ctr]_vars

\* ------------- lock specification: one Play and one Pause, with the two
\* mutexes taken in steps of their own, so that a thread can be suspended
\* while it holds one; only the device thread is scheduled fairly

\* line 446: let rg = rg_c.lock(), the decoder thread now holds the
\* replay-gain mutex
WorkerLockRg(w) ==
    /\ wk[w].pc = "rg_apply"
    /\ \A v \in Workers : wk[v].pc # "rg_locked"
    /\ wk' = [wk EXCEPT ![w].pc = "rg_locked"]
    /\ UNCHANGED <<ringVars, rd, data, histVars, cbVars, engineSide, ctl, mir>>

\* lines 447-448, 451: rg.apply(&mut samples), the guard dropped, then the
\* call ring_c.write(&samples)
WorkerApplyRgLocked(w) ==
    /\ wk[w].pc = "rg_locked"
    /\ wk' = [wk EXCEPT ![w].chunk = RgApply(rg_state, @), ![w].pc = "w_load_write"]
    /\ UNCHANGED <<ringVars, rd, data, histVars, cbVars, engineSide, ctl, mir>>

\* line 662: state.lock(), the engine thread now holds the PlaybackState
\* mutex
EnginePauseLockState ==
    /\ eng.pc = "pause_state"
    /\ eng' = [eng EXCEPT !.pc = "pause_state_locked"]
    /\ UNCHANGED <<audioVars, cbVars, hostVars, ctl, mir, state, rg_state>>

\* lines 662-663: the stores under the mutex, and its release
EnginePauseStateLocked ==
    /\ eng.pc = "pause_state_locked"
    /\ state' = [state EXCEPT !.is_paused = TRUE, !.is_playing = FALSE]
    /\ eng' = EngRecv
    /\ UNCHANGED <<audioVars, cbVars, hostVars, ctl, mir, rg_state>>

HostPlayPause ==
    \/ /\ trace.sent = 0
       /\ SendCommand(Host, Cmd("Play", 1))
    \/ /\ trace.sent = 1
       /\ SendCommand(Host, Cmd("Pause", 0))

\* the steps of an invocation of the callback, once the OS has made it
CallbackSteps ==
    \/ CallbackStep
    \/ ReadPublish /\ UNCHANGED delivered
    \/ CallbackProcess /\ UNCHANGED emitted

NextLocks ==
    \/ HostPlayPause
    \/ EngineRecv /\ RecordSnapshot
    \/ PlayStep
    \/ PauseStep
    \/ EnginePauseLockState
    \/ EnginePauseStateLocked
    \/ TimeoutStep
    \/ \E w \in Workers :
         \/ WorkerStep(w)
         \/ WorkerLockRg(w)
         \/ WorkerApplyRgLocked(w)
         \/ WorkerDecode(w) /\ UNCHANGED decoded
         \/ WritePublish(w) /\ UNCHANGED accepted
    \/ CallbackEnterFull
    \/ CallbackSteps

\* the device thread runs an invocation it has begun; the engine thread and
\* the decoder thread may stop for ever wherever they are
SpecLocks == InitEngine /\ [][NextLocks]_vars /\ WF_vars(CallbackSteps)

\* the callback is inside an invocation
InCallback == cb.pc \notin {"none", "idle"}

\* C27: every invocation of the callback returns, wherever the engine
\* thread and the decoder thread are suspended and whichever mutex they
\* hold, the callback needing only the ring buffer and the atomics.
C27_CallbackCompletes == InCallback ~> (cb.pc = "idle")

\* the callback is inside an invocation while the decoder thread holds the
\* replay-gain mutex and the engine thread holds the PlaybackState mutex
C27_Witness ==
    /\ InCallback
    /\ \E w \in Workers : wk[w].pc = "rg_locked"
    /\ eng.pc = "pause_state_locked"

\* no thread is inside write, read or clear
RingQuiet ==
    /\ ~InsideClear
    /\ ~InsideRead
    /\ \A w \in Workers : ~InsideWrite(w)

\* C28: observed while no write, read or clear is in progress,
\* available_read() + available_write() = capacity - 1, after whatever
\* writes, reads and clears the engine has run.
C28_AvailableSum == RingQuiet => available_read + available_write = capacity - 1

\* the steps of write and of read
WriteSteps ==
    \/ WriteLoadWrite(Producer)
    \/ WriteLoadRead(Producer)
    \/ WriteCopy(Producer)
    \/ WritePublish(Producer) /\ RecordAccepted(Producer)
    \/ ProducerReturn

ReadSteps ==
    \/ ReadLoadRead
    \/ ReadLoadWrite
    \/ ReadCopy
    \/ ReadPublish /\ RecordDelivered
    \/ ConsumerReturn

\* write fixes n = min(len(samples), capacity - 1 - (write_pos - read_pos))
\* when it loads read_pos, and on publishing has stored the n leading
\* samples and advanced write_pos by n
WriteExact ==
    /\ (wk[Producer].pc = "w_load_read" /\ wk'[Producer].pc # "w_load_read")
         => wk'[Producer].to_write =
              Min(Len(wk[Producer].chunk),
                  capacity - 1 - wrapping_sub(write_pos, read_pos))
    /\ (wk[Producer].pc = "w_publish" /\ wk'[Producer].pc = "w_ret")
         => /\ write_pos' = wrapping_add(write_pos, wk[Producer].to_write)
            /\ \A k \in 1..wk[Producer].to_write :
                  buffer'[SlotIndex(write_pos, k - 1)] = wk[Producer].chunk[k]

\* read fixes n = min(len(out), write_pos - read_pos) when it loads
\* write_pos, on publishing has filled out[0..n) with the n oldest unread
\* samples and advanced read_pos by n, and with n = 0 changes no counter
ReadExact ==
    /\ (rd.pc = "r_load_write" /\ rd'.pc # "r_load_write")
         => /\ rd'.to_read = Min(Len(data), wrapping_sub(write_pos, read_pos))
            /\ rd'.to_read = 0 => (rd'.pc = "r_ret" /\ read_pos' = read_pos)
    /\ (rd.pc = "r_publish" /\ rd'.pc = "r_ret")
         => /\ read_pos' = wrapping_add(read_pos, rd.to_read)
            /\ SubSeq(data', 1, rd.to_read) =
                  SubSeq(accepted, Len(delivered) + 1, Len(delivered) + rd.to_read)

\* C29: write(samples) copies exactly the
\* n = min(len(samples), capacity - 1 - (write_pos - read_pos)) leading
\* samples and returns n; read(out) returns n = min(len(out), write_pos -
\* read_pos) with the n oldest unread samples in out[0..n), and returns 0
\* without changing a counter when the ring is empty; a begun write or read
\* can always take its next step, whatever the other side is doing.
C29_WriteReadExact ==
    /\ [][WriteExact /\ ReadExact]_vars
    /\ [](wk[Producer].pc # "idle" => ENABLED WriteSteps)
    /\ [](rd.pc # "idle" => ENABLED ReadSteps)

\* a write has returned fewer samples than it was given, and more than
\* none, while a read is returning 0 from the ring it found empty
C29_Witness ==
    /\ wk[Producer].pc = "w_ret"
    /\ wk[Producer].to_write > 0
    /\ wk[Producer].to_write < Len(wk[Producer].chunk)
    /\ rd.pc = "r_ret"
    /\ rd.to_read = 0

\* the fade state and counter after a swap that found its flag set and
\* entered state f with counter c, or found it clear, or was not allowed to
\* act in the current state
SwapResult(flag, allowed, f, c) ==
    IF flag /\ allowed
    THEN cb'.fade = f /\ cb'.fade_ctr = c
    ELSE cb'.fade = cb.fade /\ cb'.fade_ctr = cb.fade_ctr

\* C30: each invocation of the callback begins by resetting the three fade
\* request flags, one after the other; a set stop flag enters FadingOut with
\* the full ramp from every state, a set pause flag does so only from
\* Playing or FadingIn, a set resume flag enters FadingIn with counter 0 only
\* from Silent or FadingOut, and otherwise state and counter are left as
\* they are.
C30_FadeRequestsConsumed ==
    [][/\ (cb.pc = "swap_stop" /\ cb'.pc # "swap_stop")
          => /\ cb'.pc = "swap_pause"
             /\ ~fade_req_stop'
             /\ SwapResult(fade_req_stop, TRUE, "FadingOut", FADE_RAMP_SAMPLES)
       /\ (cb.pc = "swap_pause" /\ cb'.pc # "swap_pause")
          => /\ cb'.pc = "swap_resume"
             /\ ~fade_req_pause'
             /\ SwapResult(fade_req_pause, cb.fade \in {"Playing", "FadingIn"},
                           "FadingOut", FADE_RAMP_SAMPLES)
       /\ (cb.pc = "swap_resume" /\ cb'.pc # "swap_resume")
          => /\ cb'.pc = "load_vol"
             /\ ~fade_req_resume'
             /\ SwapResult(fade_req_resume, cb.fade \in {"Silent", "FadingOut"},
                           "FadingIn", 0)
       /\ (cb.pc = "idle" /\ cb'.pc \notin {"idle", "none"}) => cb'.pc = "swap_stop"]_vars

\* the three swaps have run in a fade-out and the resume request has turned
\* it into a fade-in from counter 0
C30_Witness ==
    /\ cb.pc = "load_vol"
    /\ cb.fade = "FadingIn"
    /\ cb.fade_ctr = 0
    /\ ~fade_req_stop /\ ~fade_req_pause /\ ~fade_req_resume

\* ------------------------------------------------ fade ramps, frame by frame

\* the number of frames among the first read samples of a slice, the last
\* one possibly incomplete: (0..read).step_by(ch_count)
FramesIn(read, ch) == (read + ch - 1) \div ch

\* the invocation's step from ring_cb.read's return to the end of the branch
FadeProcessed(f) == cb.pc = "read" /\ cb'.pc = "done" /\ cb.fade = f

\* C31: an invocation in FadingOut with counter c that read n frames gives
\* the fade gain to min(c, n) frames and lowers the counter by as many; it
\* ends in Silent exactly when the counter has reached 0, which is when
\* FADE_RAMP_SAMPLES frames have been given the gain since the fade-out
\* began, over however many invocations, and every sample from frame c on
\* is 0.  An invocation in FadingIn ends in Playing exactly when the counter
\* has reached FADE_RAMP_SAMPLES.
C31_FadeEnds ==
    [][LET read == Len(cb'.raw)
           n == FramesIn(read, cb.ch_count)
           c == cb.fade_ctr
       IN /\ FadeProcessed("FadingOut") =>
                /\ cb'.fade \in {"Silent", "FadingOut"}
                /\ (cb'.fade = "Silent") <=> (cb'.fade_ctr = 0)
                /\ cb'.fade_ctr = c - Min(c, n)
                /\ cb'.faded = cb.faded + Min(c, n)
                /\ cb'.faded + cb'.fade_ctr = FADE_RAMP_SAMPLES
                /\ \A p \in 1..Len(data') :
                      (p - 1) \div cb.ch_count >= c => data'[p] = 0
          /\ FadeProcessed("FadingIn") =>
                /\ cb'.fade \in {"Playing", "FadingIn"}
                /\ (cb'.fade = "Playing") <=> (cb'.fade_ctr = FADE_RAMP_SAMPLES)
                /\ cb'.fade_ctr = Min(c + n, FADE_RAMP_SAMPLES)]_vars

\* C31 witness: a fade-out spread over two invocations has ended: this one
\* read two mono samples, the counter reached 0 on the first and the
\* second, not 0 in the ring, was zeroed.
C31_Witness ==
    /\ CallbackDone("FadingOut")
    /\ cb.fade = "Silent"
    /\ cb.ch_count = 1
    /\ Len(cb.raw) = 2
    /\ cb.raw[2] # 0
    /\ data[1] # 0
    /\ data[2] = 0

\* C40: between invocations of the callback the fade state and counter
\* agree: the counter lies in 0..FADE_RAMP_SAMPLES, it is 0 in Silent and
\* FADE_RAMP_SAMPLES in Playing.
C40_FadeConsistent ==
    cb.pc = "idle" =>
        /\ cb.fade_ctr \in 0..FADE_RAMP_SAMPLES
        /\ cb.fade = "Silent" => cb.fade_ctr = 0
        /\ cb.fade = "Playing" => cb.fade_ctr = FADE_RAMP_SAMPLES

\* C40 witness: the closure is part-way through a fade-in between
\* invocations, which a resume request consumed in Silent or FadingOut
\* began, after an invocation in Playing that read only part of its slice.
C40_Witness ==
    /\ cb.pc = "idle"
    /\ cb.fade = "FadingIn"
    /\ cb.fade_ctr > 0
    /\ cb.fade_ctr < FADE_RAMP_SAMPLES
    /\ dropout_count > 0

\* ------------- hold specification: one Play, then Pause, Resume and Seek
\* commands, each sent once the engine has taken the one before

HostHold ==
    \/ /\ trace.sent = 0
       /\ SendCommand(Host, Cmd("Play", 1))
    \/ \E c \in {Cmd("Pause", 0), Cmd("Resume", 0), Cmd("Seek", 1)} :
         /\ trace.plays = 1
         /\ trace.sent < 1 + MaxCmds
         /\ cmd_chan = << >>
         /\ SendCommand(Host, c)

NextHold ==
    \/ HostHold
    \/ EngineRecv /\ RecordSnapshot
    \/ PlayStep
    \/ PauseStep
    \/ ResumeStep
    \/ SeekStep
    \/ TimeoutStep
    \/ \E w \in Workers :
         \/ WorkerStep(w)
         \/ WorkerSeekStep(w)
         \/ WorkerDecode(w) /\ UNCHANGED decoded
         \/ WritePublish(w) /\ UNCHANGED accepted
    \/ CallbackEnterFull
    \/ CallbackStep
    \/ ReadPublish /\ UNCHANGED delivered
    \/ CallbackProcess /\ UNCHANGED emitted

SpecHold == InitEngine /\ [][NextHold]_vars

\* Pause has been handled and no command but Seek has been taken since
Held ==
    /\ ctl.decoder_paused
    /\ \/ snap.kind = "Pause" /\ AtRest
       \/ snap.kind = "Seek"

\* the decoder thread is past its pause check, on its way to decode a chunk
\* and write it, or inside the write
Producing(w) ==
    wk[w].pc \in {"backpressure", "decode", "store_pos", "rg_apply", "w_load_write",
                  "w_load_read", "w_copy", "w_publish", "w_ret"}

\* C32: while Pause has been handled and neither Resume nor Play has been
\* taken, a decoder thread that is not on its way to a write does not set
\* out for one, so it writes at most the chunk it was busy with, also when
\* a Seek is handled meanwhile; the thread acts on that Seek: it
\* repositions the decoder, and its steps leave write_pos alone or clear it.
C32_PausedWritesNothing ==
    [][(Held /\ Held') =>
         /\ \A w \in Workers :
               ~Producing(w) =>
                  /\ ~Producing(w)'
                  /\ (wk[w].pc = "seek_decoder" /\ wk'[w].pc = "top")
                        => wk'[w].dec_pos = wk[w].seek_val
         /\ (\A w \in Workers : ~Producing(w)) => write_pos' \in {write_pos, 0}]_vars

\* C32 witness: during the pause a Seek to second 1 was handled and the
\* decoder thread has acted on it and is back at the head of its loop, the
\* ring cleared.
C32_Witness ==
    /\ Held
    /\ AtRest
    /\ snap.kind = "Seek"
    /\ wk[1].pc = "top"
    /\ wk[1].dec_pos = 1
    /\ ctl.seek_request_ms = U64_MAX
    /\ write_pos = 0

\* ------------------------------------------------------------ backpressure

\* one second of audio of the file thread w decodes, in samples
OneSecond(w) == FileAt(wk[w].path).sample_rate * FileAt(wk[w].path).channels

\* C33: the decoder thread goes on from its backpressure test to
\* decoder.next_samples() only when the ring holds less than one second of
\* audio, available_read < sample_rate x channels.
C33_BackpressureAtOneSecond ==
    [][\A w \in Workers :
         (wk[w].pc = "backpressure" /\ wk'[w].pc = "decode")
            => available_read < OneSecond(w)]_vars

\* ------------------------------------------------- the gain tag by mode

\* C34: after any sequence of set_mode, set_clipping_prevention and
\* load_from_file, in mode Track the gain comes from the track gain tag and
\* in mode Album from the album gain tag, or from the track gain tag when
\* the file has no album gain; with no such tag gain_linear is 1.0, and
\* otherwise it is 10^(gain_db/20), or less than that, namely 1/peak, only
\* with clipping prevention on and a positive peak tag for the mode.
C34_GainByMode ==
    LET tag == CASE rg_state.mode = "Track" -> rg_state.info.track_gain_db
                 [] rg_state.mode = "Album" /\ rg_state.info.album_gain_db.some ->
                        rg_state.info.album_gain_db
                 [] OTHER -> rg_state.info.track_gain_db
        peak == PeakFor(rg_state)
    IN  rg_state.mode # "Off" =>
           IF ~tag.some THEN rg_state.gain_linear = Scale
           ELSE \/ rg_state.gain_linear = db_to_linear(tag.v)
                \/ /\ rg_state.clipping_prevention
                   /\ peak.some
                   /\ peak.v > 0
                   /\ rg_state.gain_linear = RoundDiv(Scale * Scale, peak.v)
                   /\ rg_state.gain_linear < db_to_linear(tag.v)

\* C34 witness: in mode Album a file with a track gain of -6 dB and no
\* album gain has the gain of its track tag.
C34_Witness ==
    /\ rg_state.mode = "Album"
    /\ ~rg_state.info.album_gain_db.some
    /\ rg_state.info.track_gain_db = Some(-6)
    /\ rg_state.gain_linear = Scale \div 2

\* ------------------------------------------------ Stop and the fade-out

\* the Stop handler drops the stream it holds
StopDrops == eng.pc = "stop_drop" /\ eng'.pc = "stop_clear_w" /\ StreamPresent

\* C35: when the Stop handler drops the stream, the callback has completed
\* the fade-out: its fade state is Silent.  Stated for the runs in which
\* the callback was invoked during the handler's sleep and took the stop
\* request, which are the runs the length of the sleep is meant to allow.
C35_StopAfterFade ==
    [][(StopDrops /\ ~fade_req_stop) => cb.fade = "Silent"]_vars

\* ------------- auto-stop specification: one Play and one Seek, a decoder
\* that may fail on any packet, and the Timeout arm's condition evaluated
\* as the code evaluates it, one load after the other

\* line 722: recv_timeout timed out; !decoder_running.load(Relaxed)
EngineTimeoutLoadRunning ==
    /\ eng.pc = "recv"
    /\ cmd_chan = << >>
    /\ ~ctl.decoder_running
    /\ eng' = [eng EXCEPT !.pc = "timeout_playing"]
    /\ UNCHANGED <<audioVars, cbVars, hostVars, ctl, mir, state, rg_state>>

\* line 723: && is_playing.load(Relaxed)
EngineTimeoutLoadPlaying ==
    /\ eng.pc = "timeout_playing"
    /\ eng' = IF mir.is_playing THEN [eng EXCEPT !.pc = "timeout_ring"] ELSE EngRecv
    /\ UNCHANGED <<audioVars, cbVars, hostVars, ctl, mir, state, rg_state>>

\* line 724: && ring_buffer.available_read() == 0
EngineTimeoutLoadRing ==
    /\ eng.pc = "timeout_ring"
    /\ eng' = IF available_read = 0 THEN [eng EXCEPT !.pc = "timeout_store"] ELSE EngRecv
    /\ UNCHANGED <<audioVars, cbVars, hostVars, ctl, mir, state, rg_state>>

\* lines 726-727: is_playing.store(false); is_paused.store(false)
EngineTimeoutStore ==
    /\ eng.pc = "timeout_store"
    /\ mir' = [mir EXCEPT !.is_playing = FALSE, !.is_paused = FALSE]
    /\ eng' = [eng EXCEPT !.pc = "timeout_drop"]
    /\ UNCHANGED <<audioVars, cbVars, hostVars, ctl, state, rg_state>>

NextAuto ==
    \/ HostPlaySeek
    \/ EngineRecv /\ RecordSnapshot
    \/ PlayStep
    \/ SeekStep
    \/ EngineTimeoutLoadRunning
    \/ EngineTimeoutLoadPlaying
    \/ EngineTimeoutLoadRing
    \/ EngineTimeoutStore
    \/ EngineTimeoutDropStream
    \/ EngineTimeoutState
    \/ \E w \in Workers :
         \/ WorkerStep(w)
         \/ WorkerSeekStep(w)
         \/ WorkerDecode(w) /\ UNCHANGED decoded
         \/ WorkerDecodeError(w) /\ UNCHANGED decoded
         \/ WritePublish(w) /\ UNCHANGED accepted
    \/ CallbackEnterFull
    \/ CallbackStep
    \/ ReadPublish /\ UNCHANGED delivered
    \/ CallbackProcess /\ UNCHANGED emitted

SpecAuto == InitEngine /\ [][NextAuto]_vars

\* the Timeout arm clears the playing flags, and then drops the stream
AutoStops ==
    \/ eng.pc = "timeout_store" /\ eng'.pc = "timeout_drop"
    \/ eng.pc = "timeout_drop" /\ eng'.pc = "timeout_state"

\* C36: when the Timeout arm clears the playing flags, and when it then
\* drops the stream, the decoder thread's running flag is clear and the ring
\* is empty, and at the first of the two is_playing is still set; no
\* decoder thread is alive.
C36_AutoStopOnlyAtEnd ==
    [][AutoStops =>
         /\ ~ctl.decoder_running
         /\ available_read = 0
         /\ eng.pc = "timeout_store" => mir.is_playing
         /\ \A w \in Workers : ~Alive(w)]_vars

\* ------------- seek specification: one Play, then Seek commands to
\* different seconds inside the track

\* seconds inside the track of path 1
SeekSeconds == {1, 2}

HostSeeks ==
    \/ /\ trace.sent = 0
       /\ SendCommand(Host, Cmd("Play", 1))
    \/ \E t \in SeekSeconds :
         /\ trace.plays = 1
         /\ trace.sent < 1 + MaxCmds
         /\ SendCommand(Host, Cmd("Seek", t))

NextSeeks ==
    \/ HostSeeks
    \/ EngineRecv /\ RecordSnapshot
    \/ PlayStep
    \/ SeekStep
    \/ TimeoutStep
    \/ \E w \in Workers :
         \/ WorkerStep(w)
         \/ WorkerSeekStep(w)
         \/ WorkerDecode(w) /\ UNCHANGED decoded
         \/ WritePublish(w) /\ UNCHANGED accepted
    \/ CallbackEnterFull
    \/ CallbackStep
    \/ ReadPublish /\ UNCHANGED delivered
    \/ CallbackProcess /\ UNCHANGED emitted

SpecSeeks == InitEngine /\ [][NextSeeks]_vars

\* C37: when the decoder thread resets seek_request_ms to the no-seek
\* value, the request it overwrites is the one it loaded and is about to
\* act on: a target published since is not erased.
C37_SeekNotErased ==
    [][\A w \in Workers :
         (wk[w].pc = "seek_reset" /\ wk'[w].pc = "clear_w")
            => ctl.seek_request_ms = wk[w].seek_val]_vars

\* ------------------------------------------------ playing and paused

\* C38: what get_state returns never has is_playing and is_paused both
\* true, at whatever point of a handler the host calls it.
C38_NeverPlayingAndPaused == ~(get_state.is_playing /\ get_state.is_paused)

\* ------------- orphan specification: a Resume with nothing loaded, or a
\* Play followed by a Play of a file that does not open, with every thread
\* scheduled fairly

HostOrphan ==
    \/ /\ trace.sent = 0
       /\ \E c \in {Cmd("Resume", 0), Cmd("Play", 1)} : SendCommand(Host, c)
    \/ /\ trace.sent = 1
       /\ trace.plays = 1
       /\ SendCommand(Host, Cmd("Play", BadPath))

\* the engine thread's steps other than dropping the stream
EngineOrphanRun ==
    \/ EngineRecv /\ RecordSnapshot
    \/ EnginePlayStopDecoder
    \/ EnginePlayOpen
    \/ EnginePlayLoadRg
    \/ EnginePlayState
    \/ EnginePlayStorePlaying
    \/ EnginePlayStorePaused
    \/ EnginePlayStoreRest
    \/ EnginePlayBitPerfect
    \/ EnginePlayClearWrite
    \/ EnginePlayClearRead
    \/ EnginePlayResetFlags
    \/ EnginePlaySetRunning
    \/ EnginePlaySpawn
    \/ EnginePlayBuildStream
    \/ ResumeStep
    \/ EngineTimeout
    \/ EngineTimeoutState

NextOrphan ==
    \/ HostOrphan
    \/ EngineOrphanRun
    \/ EngineDrop
    \/ \E w \in Workers :
         \/ WorkerStep(w)
         \/ WorkerDecode(w) /\ UNCHANGED decoded
         \/ WritePublish(w) /\ UNCHANGED accepted
    \/ CallbackRun

\* the fairness of the end-of-track specifications
FairOrphan ==
    /\ WF_vars(EngineOrphanRun)
    /\ SF_vars(EngineDrop)
    /\ \A w \in Workers : WF_vars(WorkerRun(w))
    /\ WF_vars(CallbackRun)

SpecOrphan == InitEngine /\ [][NextOrphan]_vars /\ FairOrphan

\* the engine is between commands with is_playing set, the running flag
\* clear, no decoder thread alive and no stream held
Orphaned ==
    /\ AtRest
    /\ cmd_chan = << >>
    /\ mir.is_playing
    /\ ~ctl.decoder_running
    /\ \A w \in Workers : ~Alive(w)
    /\ ~StreamPresent

\* C39: from a state with is_playing set, no decoder thread running and no
\* stream, the engine eventually clears is_playing, unless a further
\* command arrives.
C39_PlayingEventuallyCleared ==
    Orphaned ~> (~mir.is_playing \/ cmd_chan # << >>)

====
